---- MODULE Spec2Model ----
(***************************************************************************)
(* A model of merkle-trie-clock: the hybrid logical clock (timestamp.rs),   *)
(* the merkle trie (merkle.rs), the client record store (mem_storage.rs),   *)
(* the client syncer (syncer.rs) and the example server (examples/server).  *)
(*                                                                         *)
(* Eleven specifications share the variables:                                *)
(*   SpecHLC    one clock under send()/recv() with arbitrary wall times    *)
(*   SpecTrie   two tries built by insert(), compared by diff()            *)
(*   SpecStore  one client store under apply_messages()                    *)
(*   Spec       clients and the server exchanging sync rounds              *)
(*   SpecOne    one client application and the server                      *)
(*   SpecLossy  SpecOne with a transport that may fail                    *)
(*   SpecCodec  one millis through the key codec of a MerkleTrie<BASE>     *)
(*   SpecSync   periodic syncs against a server that holds messages        *)
(*   SpecRecv   one client Syncer under receive_messages()                 *)
(*   SpecServer the server handling requests of two groups one at a time   *)
(*   SpecLocks  the threads of one application and its Mutexes            *)
(***************************************************************************)
EXTENDS Integers, Sequences, FiniteSets, TLC

VARIABLES
    hlc,        \* SpecHLC: the clock, a Timestamp {millis, counter, node}
    hlcLog,     \* SpecHLC: the successful calls in order: send with the timestamp
                \*          it returned, recv with the timestamp it merged
    hlcOp,      \* SpecHLC: the last call: kind, outcome, clock before, argument,
                \*          wall-clock reading, number
    m1,         \* SpecTrie: first MerkleTrie
    m2,         \* SpecTrie: second MerkleTrie
    ins1,       \* SpecTrie: what was inserted into m1: how many times each
                \*           timestamp (bag), and the last one (last)
    ins2,       \* SpecTrie: the same for m2
    store,      \* SpecStore: one client (clock, trie, records, applied set)
    storeOp,    \* SpecStore: the last step: kind, outcome of its last call, the
                \*            client after its first call, how many timestamps that
                \*            call applied, number; clean: no call has failed
                \*            (SpecRecv: first is the client before the call)
    storeLog,   \* SpecStore: the messages whose timestamp the calls put in applied
    clients,    \* Spec: node name -> client
    calls,      \* Spec: node name -> the operation in progress on that client
    server,     \* Spec: group -> [log, merkle] (tables messages, messages_merkles)
    issued,     \* Spec: number of mutations issued so far
                \*       (SpecServer: number of requests handled so far)
    synced,     \* Spec: number of periodic syncs started so far
    codec,      \* SpecCodec: one millis through timestamp_to_key and
                \*            key_to_timestamp_millis of a MerkleTrie<Base>
    app         \* SpecLocks: the threads of one application and its Mutexes
                \*            (who holds the Syncer's, who holds the Storage's)

hlcVars   == <<hlc, hlcLog, hlcOp>>
trieVars  == <<m1, m2, ins1, ins2, codec>>
storeVars == <<store, storeOp, storeLog>>
sysVars   == <<clients, calls, server, issued, synced>>
lockVars  == <<app>>
vars      == <<hlc, hlcLog, hlcOp, m1, m2, ins1, ins2,
               store, storeOp, storeLog, clients, calls, server, issued,
               synced, codec, app>>

(***************************************************************************)
(* Program constants.                                                      *)
(***************************************************************************)
MAX_DRIFT == 60000
MAX_COUNTER == 65535
BASE == 3

(***************************************************************************)
(* Bounds of the model.                                                    *)
(***************************************************************************)
MaxPhys == 2          \* wall-clock readings are 1..MaxPhys
MaxHlcOps == 3        \* send()/recv() calls in one SpecHLC behaviour
HashBits == 3         \* width of the modelled digest
MaxMillis == 4        \* SpecTrie inserts timestamps with millis 0..MaxMillis
MaxInserts == 2       \* insert() calls on each trie of SpecTrie
MaxStoreMillis == 2   \* SpecStore applies messages with millis 1..MaxStoreMillis
MaxBatch == 2         \* messages in one batch of SpecStore
MaxApplies == 2       \* apply_messages calls with a new batch in SpecStore
MaxSysPhys == 2       \* Spec: wall-clock readings are BASE..(BASE + MaxSysPhys - 1)
MaxMutations == 2     \* Spec: add/update/remove operations in one behaviour
MaxSyncs == 2         \* Spec: periodic syncs in one behaviour
MaxLogged == 3        \* SpecSync: messages the server may hold at the start
UsizeBits == 8        \* SpecCodec: modelled width of usize; i64 has one bit less
MaxBase == 5          \* SpecCodec: the tries are MerkleTrie<2> .. MerkleTrie<MaxBase>

Max(a, b) == IF a >= b THEN a ELSE b
Min(a, b) == IF a <= b THEN a ELSE b

(***************************************************************************)
(* Node names.  Display pads the node to 16 columns ("{:016}" on a string  *)
(* pads with spaces on the right); a name of 16 characters is unchanged.   *)
(***************************************************************************)
Pad(node) ==
    CASE node = ""       -> "                "
      [] node = "CLIENT" -> "CLIENT          "
      [] node = "SERVER" -> "SERVER          "
      [] node = "local"  -> "local           "
      [] node = "remote" -> "remote          "
      [] node = "my-laptop" -> "my-laptop       "
      [] OTHER           -> node

\* Byte order of the padded node texts (space < digit < upper case < lower case).
NodeRank(padded) ==
    CASE padded = "                " -> 0
      [] padded = "1a2b3c4d5e6f7a8b" -> 1
      [] padded = "CLIENT          " -> 2
      [] padded = "SERVER          " -> 3
      [] padded = "f0e1d2c3b4a59687" -> 4
      [] padded = "local           " -> 5
      [] padded = "my-laptop       " -> 6
      [] padded = "remote          " -> 7
      [] OTHER                       -> 8

(***************************************************************************)
(* Timestamp (timestamp.rs).  A Timestamp is [millis, counter, node].  Its  *)
(* text (Display) is the RFC3339 date of millis, the counter in 4 hex      *)
(* digits and the padded node; the text is modelled by the same three      *)
(* fields with the node padded, and texts compare field by field.          *)
(***************************************************************************)
Timestamp(millis, counter, node) ==
    [millis |-> millis, counter |-> counter, node |-> node]

to_string(t) == [millis |-> t.millis, counter |-> t.counter, node |-> Pad(t.node)]

\* String comparison of two timestamp texts.
StrLess(s, u) ==
    \/ s.millis < u.millis
    \/ s.millis = u.millis /\ s.counter < u.counter
    \/ s.millis = u.millis /\ s.counter = u.counter
         /\ NodeRank(s.node) < NodeRank(u.node)

\* (millis, counter) order of two timestamps.
TsLess(t, u) ==
    \/ t.millis < u.millis
    \/ t.millis = u.millis /\ t.counter < u.counter

\* The digest of a timestamp: murmurhash3 of its text, a bit vector.  It is
\* modelled HashBits wide, as the set of the positions of its 1 bits.
BitsOf(n) == {i \in 0..(HashBits - 1) : (n \div (2 ^ i)) % 2 = 1}

Hash(t) ==
    LET s == to_string(t)
    IN  BitsOf((s.millis * 5 + s.counter * 3 + NodeRank(s.node) * 6 + 1)
                 % (2 ^ HashBits))

\* a ^ b on bit vectors.
Xor(a, b) == (a \ b) \cup (b \ a)

SendBroken(self, phys) ==
    LET l_new == Max(self.millis, phys)
    IN  IF l_new - phys > MAX_DRIFT
        THEN [err |-> "ClockDriftError", ts |-> self]
        ELSE [err |-> "Ok", ts |-> [self EXCEPT !.millis = l_new, !.counter = 0]]

SendCommitFirst(self, phys) ==
    LET l_new == Max(self.millis, phys)
        c_new == IF self.millis = l_new THEN self.counter + 1 ELSE 0
        ts == [self EXCEPT !.millis = l_new, !.counter = c_new]
    IN  IF l_new - phys > MAX_DRIFT
        THEN [err |-> "ClockDriftError", ts |-> ts]
        ELSE IF c_new > MAX_COUNTER
        THEN [err |-> "OverflowError", ts |-> ts]
        ELSE [err |-> "Ok", ts |-> ts]

SendWallClock(self, phys) ==
    LET c_new == IF self.millis = phys THEN self.counter + 1 ELSE 0
    IN  IF c_new > MAX_COUNTER
        THEN [err |-> "OverflowError", ts |-> self]
        ELSE [err |-> "Ok",
              ts |-> [self EXCEPT !.millis = phys, !.counter = c_new]]

\* Timestamp::send with the wall clock reading phys.
Send(self, phys) ==
    LET l_old == self.millis
        c_old == self.counter
        l_new == Max(l_old, phys)
        c_new == IF l_old = l_new THEN c_old + 1 ELSE 0
    IN  IF l_new - phys > MAX_DRIFT
        THEN [err |-> "ClockDriftError", ts |-> self]
        ELSE IF c_new > MAX_COUNTER
        THEN [err |-> "OverflowError", ts |-> self]
        ELSE [err |-> "Ok",
              ts |-> [self EXCEPT !.millis = l_new, !.counter = c_new]]

RecvBroken(self, other, phys) ==
    LET l_new == Max(Max(self.millis, phys), other.millis)
        c_new == IF l_new = self.millis THEN self.counter + 1 ELSE 0
    IN  IF other.node = self.node
        THEN [err |-> "DuplicateNodeError", ts |-> self]
        ELSE IF other.millis - phys > MAX_DRIFT \/ l_new - phys > MAX_DRIFT
        THEN [err |-> "ClockDriftError", ts |-> self]
        ELSE IF c_new > MAX_COUNTER
        THEN [err |-> "OverflowError", ts |-> self]
        ELSE [err |-> "Ok",
              ts |-> [self EXCEPT !.millis = l_new, !.counter = c_new]]

RecvOwnCounter(self, other, phys) ==
    LET l_new == Max(Max(self.millis, phys), other.millis)
        c_new == IF l_new = self.millis THEN self.counter + 1
                 ELSE IF l_new = other.millis THEN other.counter + 1
                 ELSE 0
    IN  IF other.node = self.node
        THEN [err |-> "DuplicateNodeError", ts |-> self]
        ELSE IF other.millis - phys > MAX_DRIFT \/ l_new - phys > MAX_DRIFT
        THEN [err |-> "ClockDriftError", ts |-> self]
        ELSE IF c_new > MAX_COUNTER
        THEN [err |-> "OverflowError", ts |-> self]
        ELSE [err |-> "Ok",
              ts |-> [self EXCEPT !.millis = l_new, !.counter = c_new]]

\* Timestamp::recv with the wall clock reading phys.
Recv(self, other, phys) ==
    LET l_msg == other.millis
        c_msg == other.counter
        l_old == self.millis
        c_old == self.counter
        l_new == Max(Max(l_old, phys), l_msg)
        c_new == IF l_new = l_old /\ l_new = l_msg THEN Max(c_old, c_msg) + 1
                 ELSE IF l_new = l_old THEN c_old + 1
                 ELSE IF l_new = l_msg THEN c_msg + 1
                 ELSE 0
    IN  IF other.node = self.node
        THEN [err |-> "DuplicateNodeError", ts |-> self]
        ELSE IF l_msg - phys > MAX_DRIFT
        THEN [err |-> "ClockDriftError", ts |-> self]
        ELSE IF l_new - phys > MAX_DRIFT
        THEN [err |-> "ClockDriftError", ts |-> self]
        ELSE IF c_new > MAX_COUNTER
        THEN [err |-> "OverflowError", ts |-> self]
        ELSE [err |-> "Ok",
              ts |-> [self EXCEPT !.millis = l_new, !.counter = c_new]]

(***************************************************************************)
(* MerkleTrie (merkle.rs).  A trie is [nodes, length]; nodes maps the path  *)
(* of every node (the digits from the root, <<>> for the root) to the      *)
(* node's [hash, stored].  The children of a node are the paths one digit  *)
(* longer; a node with children None or an empty map has none.             *)
(***************************************************************************)
EmptyNode == [hash |-> {}, stored |-> FALSE]

\* MerkleTrie::new
NewTrie == [nodes |-> (<<>> :> EmptyNode), length |-> 0]

is_empty(trie) == trie.length = 0

root_hash(trie) == trie.nodes[<<>>].hash

\* The keys of node.children, for the node at path.
ChildKeys(trie, path) ==
    {d \in 0..(BASE - 1) : Append(path, d) \in DOMAIN trie.nodes}

\* MerkleTrie::timestamp_to_key: the digits of millis, pushed least
\* significant first and then reversed.
RECURSIVE DigitsLsf(_)
DigitsLsf(current) ==
    IF current = 0 THEN <<>>
    ELSE <<current % BASE>> \o DigitsLsf(current \div BASE)

Reverse(seq) == [i \in 1..Len(seq) |-> seq[Len(seq) + 1 - i]]

\* The loop of timestamp_to_key in a MerkleTrie<Base>.
RECURSIVE DigitsLsfOf(_, _)
DigitsLsfOf(Base, current) ==
    IF current = 0 THEN <<>>
    ELSE <<current % Base>> \o DigitsLsfOf(Base, current \div Base)

\* The loop of key_to_timestamp_millis in a MerkleTrie<Base> on usize of
\* UsizeBits bits: current and base after the loop, wrapped, and whether
\* an addition or a multiplication overflowed.
RECURSIVE KeyLoop(_, _, _, _)
KeyLoop(Base, rev, base, current) ==
    IF rev = <<>> THEN [current |-> current, overflow |-> FALSE]
    ELSE LET product == Head(rev) * base
             sum == current + (product % (2 ^ UsizeBits))
             scaled == base * Base
             rest == KeyLoop(Base, Tail(rev), scaled % (2 ^ UsizeBits),
                             sum % (2 ^ UsizeBits))
         IN  [current |-> rest.current,
              overflow |-> \/ product >= 2 ^ UsizeBits
                           \/ sum >= 2 ^ UsizeBits
                           \/ scaled >= 2 ^ UsizeBits
                           \/ rest.overflow]

timestamp_to_key(t) == Reverse(DigitsLsf(t.millis))

\* MerkleTrie::key_to_timestamp_millis
RECURSIVE KeySum(_, _)
KeySum(rev, base) ==
    IF rev = <<>> THEN 0
    ELSE Head(rev) * base + KeySum(Tail(rev), base * BASE)

key_to_timestamp_millis(key) == KeySum(Reverse(key), 1)

\* MerkleTrie::insert_key on the node at path: the nodes after the call.
\* The node returned for path keeps its hash and has stored = (key.len() == 1);
\* the caller keeps of it only the children, except for the root.
RECURSIVE insert_key(_, _, _, _)
insert_key(nodes, path, key, timestamp_hash) ==
    IF key = <<>> THEN nodes
    ELSE
        LET child == Append(path, Head(key))
            curr_child == IF child \in DOMAIN nodes THEN nodes[child]
                          ELSE [hash |-> {}, stored |-> Len(key) = 1]
            with_child == [p \in DOMAIN nodes \cup {child} |->
                              IF p = child THEN curr_child ELSE nodes[p]]
            below == insert_key(with_child, child, Tail(key), timestamp_hash)
            new_child == [hash |-> Xor(curr_child.hash, timestamp_hash),
                          stored |-> curr_child.stored \/ Len(key) = 1]
        IN  [below EXCEPT ![child] = new_child,
                          ![path] = [hash |-> nodes[path].hash,
                                     stored |-> Len(key) = 1]]

InsertNoXor(trie, t) ==
    LET key == timestamp_to_key(t)
        hashed == [trie.nodes EXCEPT ![<<>>].hash = Xor(@, Hash(t))]
    IN  [nodes |-> insert_key(hashed, <<>>, key, {}),
         length |-> trie.length + 1]

InsertAssign(trie, t) ==
    LET key == timestamp_to_key(t)
        hashed == [trie.nodes EXCEPT ![<<>>].hash = Hash(t)]
    IN  [nodes |-> insert_key(hashed, <<>>, key, Hash(t)),
         length |-> trie.length + 1]

\* MerkleTrie::insert
Insert(trie, t) ==
    LET hash == Hash(t)
        key == timestamp_to_key(t)
        hashed == [trie.nodes EXCEPT ![<<>>].hash = Xor(@, hash)]
    IN  [nodes |-> insert_key(hashed, <<>>, key, hash),
         length |-> trie.length + 1]

None == [tag |-> "None", val |-> 0]
Some(v) == [tag |-> "Some", val |-> v]
\* A failed assert! (the call does not return).
Panic == [tag |-> "Panic", val |-> 0]

MinOf(S) == CHOOSE x \in S : \A y \in S : x <= y

\* MerkleTrie::find_first_key_by_prefix from the node at key: follow the first
\* child down to the first stored node.
RECURSIVE find_first_key_by_prefix(_, _)
find_first_key_by_prefix(trie, key) ==
    IF trie.nodes[key].stored THEN Some(key_to_timestamp_millis(key))
    ELSE IF ChildKeys(trie, key) = {} THEN Panic
    ELSE find_first_key_by_prefix(trie,
             Append(key, MinOf(ChildKeys(trie, key))))

\* The loop of MerkleTrie::diff.  has1/has2: node1/node2 are Some (the node
\* at key_diff_prefix, the same path on both sides); prev1/prev2:
\* node1_prev_stored/node2_prev_stored.  The find() closure evaluates the
\* comparison of the child hashes and then yields true, so key_diff is the
\* first key of the sorted keyset.
RECURSIVE DiffWalk(_, _, _, _, _)
DiffWalk(a, b, prefix, prev1, prev2) ==
    LET has1 == prefix \in DOMAIN a.nodes
        has2 == prefix \in DOMAIN b.nodes
    IN  IF ~(has1 /\ has2)
        THEN [prefix |-> prefix, prev1 |-> prev1, prev2 |-> prev2]
        ELSE
            LET s1 == a.nodes[prefix].stored
                s2 == b.nodes[prefix].stored
                keyset == ChildKeys(a, prefix) \cup ChildKeys(b, prefix)
            IN  IF ChildKeys(a, prefix) = {} \/ ChildKeys(b, prefix) = {}
                THEN [prefix |-> prefix, prev1 |-> s1, prev2 |-> s2]
                ELSE DiffWalk(a, b, Append(prefix, MinOf(keyset)), s1, s2)

MinResult(r1, r2) ==
    IF r1.tag = "Panic" \/ r2.tag = "Panic" THEN Panic
    ELSE Some(Min(r1.val, r2.val))

DiffNoRootCheck(self, other) ==
    IF is_empty(self) /\ is_empty(other) THEN None
    ELSE IF is_empty(self) \/ is_empty(other) THEN Some(0)
    ELSE
        LET w == DiffWalk(self, other, <<>>, FALSE, FALSE)
        IN  IF w.prefix = <<>> THEN Panic
            ELSE Some(key_to_timestamp_millis(w.prefix))

DiffEmptyFirst(self, other) ==
    IF is_empty(self) \/ is_empty(other) THEN Some(0)
    ELSE IF root_hash(self) = root_hash(other) THEN None
    ELSE
        LET w == DiffWalk(self, other, <<>>, FALSE, FALSE)
            has1 == w.prefix \in DOMAIN self.nodes
            has2 == w.prefix \in DOMAIN other.nodes
        IN  IF w.prefix = <<>> THEN Panic
            ELSE IF w.prev1 \/ w.prev2
            THEN Some(key_to_timestamp_millis(w.prefix))
            ELSE IF has1 /\ ~has2
            THEN find_first_key_by_prefix(self, w.prefix)
            ELSE IF ~has1 /\ has2
            THEN find_first_key_by_prefix(other, w.prefix)
            ELSE IF ~has1 /\ ~has2
            THEN Some(key_to_timestamp_millis(w.prefix))
            ELSE MinResult(find_first_key_by_prefix(self, w.prefix),
                           find_first_key_by_prefix(other, w.prefix))

\* MerkleTrie::diff
Diff(self, other) ==
    IF is_empty(self) /\ is_empty(other) THEN None
    ELSE IF is_empty(self) \/ is_empty(other) THEN Some(0)
    ELSE IF root_hash(self) = root_hash(other) THEN None
    ELSE
        LET w == DiffWalk(self, other, <<>>, FALSE, FALSE)
            has1 == w.prefix \in DOMAIN self.nodes
            has2 == w.prefix \in DOMAIN other.nodes
        IN  IF w.prefix = <<>> THEN Panic
            ELSE IF w.prev1 \/ w.prev2
            THEN Some(key_to_timestamp_millis(w.prefix))
            ELSE IF has1 /\ ~has2
            THEN find_first_key_by_prefix(self, w.prefix)
            ELSE IF ~has1 /\ has2
            THEN find_first_key_by_prefix(other, w.prefix)
            ELSE IF ~has1 /\ ~has2
            THEN Some(key_to_timestamp_millis(w.prefix))
            ELSE MinResult(find_first_key_by_prefix(self, w.prefix),
                           find_first_key_by_prefix(other, w.prefix))


(***************************************************************************)
(* Message (core/src/models.rs) is [timestamp, dataset, row, column,       *)
(* value]; timestamp is a timestamp text.  (value_type is carried by the   *)
(* code and read by no handler; it is left out.)                            *)
(***************************************************************************)
Message(timestamp, dataset, row, column, value) ==
    [timestamp |-> timestamp, dataset |-> dataset, row |-> row,
     column |-> column, value |-> value]

\* Timestamp::parse splits the text on '-' and wants exactly five parts: a
\* text whose node holds a '-' has more and does not parse.  The parsed node
\* is the text's (padded) node.
Parses(text) == text.node # "my-laptop       "

parse(text) == Timestamp(text.millis, text.counter, text.node)

TODO_TABLE == "todos"

\* Todo::from_message
from_message(message) ==
    [id |-> message.row, content |-> "", todo_type |-> "", tombstone |-> 0]

\* str::parse::<i8> on the values the model uses.
ParsesAsI8(value) == value \in {"0", "1"}

I8(value) == IF value = "1" THEN 1 ELSE 0

\* Todo::handle_message: the record after the message, or an error that
\* leaves the record as it was.
handle_message(self, message) ==
    IF message.dataset # TODO_TABLE THEN [err |-> "Wrong table", item |-> self]
    ELSE IF message.row # self.id THEN [err |-> "Wrong row", item |-> self]
    ELSE IF message.column = "content"
    THEN [err |-> "Ok", item |-> [self EXCEPT !.content = message.value]]
    ELSE IF message.column = "todo_type"
    THEN [err |-> "Ok", item |-> [self EXCEPT !.todo_type = message.value]]
    ELSE IF message.column = "tombstone"
    THEN IF ParsesAsI8(message.value)
         THEN [err |-> "Ok", item |-> [self EXCEPT !.tombstone = I8(message.value)]]
         ELSE [err |-> "ParseIntError", item |-> self]
    ELSE [err |-> "Unknown type", item |-> self]

(***************************************************************************)
(* A client (Syncer, client/src/syncer.rs) is [node_name, timer, merkle,    *)
(* items, applied]: the node name, the MerkleClock's timestamp and trie,    *)
(* and the MemStorage's records (row -> record) and applied_messages.       *)
(***************************************************************************)
\* Syncer::new
NewSyncer(node_name) ==
    [node_name |-> node_name,
     timer |-> Timestamp(0, 0, node_name),
     merkle |-> NewTrie,
     items |-> <<>>,
     applied |-> {}]

ApplyItemTableUnchecked(cl, incoming_message) ==
    LET old == IF incoming_message.row \in DOMAIN cl.items
               THEN cl.items[incoming_message.row]
               ELSE from_message(incoming_message)
        h == handle_message(old, incoming_message)
    IN  IF h.err # "Ok" THEN [err |-> h.err, cl |-> cl]
        ELSE [err |-> "Ok",
              cl |-> [cl EXCEPT
                  !.items = [r \in DOMAIN cl.items \cup {incoming_message.row} |->
                                IF r = incoming_message.row THEN h.item
                                ELSE cl.items[r]],
                  !.merkle = Insert(cl.merkle, parse(incoming_message.timestamp)),
                  !.applied = @ \cup {incoming_message.timestamp}]]

\* MemStorage::apply_item_table
apply_item_table(cl, incoming_message) ==
    IF incoming_message.timestamp \in cl.applied THEN [err |-> "Ok", cl |-> cl]
    ELSE
        LET old == IF incoming_message.row \in DOMAIN cl.items
                   THEN cl.items[incoming_message.row]
                   ELSE from_message(incoming_message)
            h == handle_message(old, incoming_message)
            withItem == [cl EXCEPT !.items =
                            [r \in DOMAIN cl.items \cup {incoming_message.row} |->
                                IF r = incoming_message.row THEN h.item
                                ELSE cl.items[r]]]
        IN  IF h.err # "Ok" THEN [err |-> h.err, cl |-> cl]
            ELSE IF ~Parses(incoming_message.timestamp)
            THEN [err |-> "Parse timestamp failed", cl |-> withItem]
            ELSE [err |-> "Ok",
                  cl |-> [withItem EXCEPT
                      !.merkle = Insert(@, parse(incoming_message.timestamp)),
                      !.applied = @ \cup {incoming_message.timestamp}]]

\* Vec::sort_by on the timestamp texts (a stable sort): insertion from the
\* back keeps equal texts in their order.
RECURSIVE InsertSorted(_, _)
InsertSorted(m, sorted) ==
    IF sorted = <<>> THEN <<m>>
    ELSE IF StrLess(Head(sorted).timestamp, m.timestamp)
    THEN <<Head(sorted)>> \o InsertSorted(m, Tail(sorted))
    ELSE <<m>> \o sorted

RECURSIVE SortByTimestamp(_)
SortByTimestamp(messages) ==
    IF messages = <<>> THEN <<>>
    ELSE InsertSorted(Head(messages), SortByTimestamp(Tail(messages)))

\* The for loop of MemStorage::apply_messages over the sorted messages.
RECURSIVE ApplyLoopAnyTable(_, _, _)
ApplyLoopAnyTable(cl, messages, table_name) ==
    IF messages = <<>> THEN [err |-> "Ok", cl |-> cl]
    ELSE LET r == apply_item_table(cl, Head(messages))
         IN  IF r.err # "Ok" THEN r
             ELSE ApplyLoopAnyTable(r.cl, Tail(messages), table_name)

RECURSIVE ApplyLoop(_, _, _)
ApplyLoop(cl, messages, table_name) ==
    IF messages = <<>> THEN [err |-> "Ok", cl |-> cl]
    ELSE IF Head(messages).dataset = table_name
    THEN LET r == apply_item_table(cl, Head(messages))
         IN  IF r.err # "Ok" THEN r
             ELSE ApplyLoop(r.cl, Tail(messages), table_name)
    ELSE ApplyLoop(cl, Tail(messages), table_name)

ApplyMessagesAtomic(cl, messages) ==
    LET r == ApplyLoop(cl, SortByTimestamp(messages), TODO_TABLE)
    IN  IF r.err # "Ok" THEN [err |-> r.err, cl |-> cl] ELSE r

\* MemStorage::apply_messages
apply_messages(cl, messages) ==
    ApplyLoop(cl, SortByTimestamp(messages), TODO_TABLE)

(***************************************************************************)
(* The example server (examples/server).  The state of a group is [log,     *)
(* merkle]: the rows of table messages for the group (a set of messages,    *)
(* at most one per timestamp: the primary key is (timestamp, group_id)) and *)
(* the trie of its row of messages_merkles.                                 *)
(***************************************************************************)
NODE_NAME == "SERVER"
GROUP_ID == "todo-app"

\* The groups of the server's tables: the todo application's and another
\* application's.
ServerGroups == {GROUP_ID, "notes-app"}

NewGroup == [log |-> {}, merkle |-> NewTrie]

\* get_merkle: the stored trie of the group, a new trie when it has no row.
get_merkle(srv, group_id) == srv[group_id].merkle

RECURSIVE AddLoopNoIgnore(_, _, _, _)
AddLoopNoIgnore(log, trie, changed, messages) ==
    IF messages = <<>> THEN [log |-> log, trie |-> trie, changed |-> changed]
    ELSE
        LET message == Head(messages)
            kept == IF \E m \in log : m.timestamp = message.timestamp
                    THEN log ELSE log \cup {message}
        IN  IF Parses(message.timestamp)
            THEN AddLoopNoIgnore(kept, Insert(trie, parse(message.timestamp)),
                                 TRUE, Tail(messages))
            ELSE AddLoopNoIgnore(kept, trie, changed, Tail(messages))

\* The for loop of add_messages: INSERT OR IGNORE of each message, and the
\* insertion into the local trie of the timestamp of each row inserted.
RECURSIVE AddLoop(_, _, _, _)
AddLoop(log, trie, changed, messages) ==
    IF messages = <<>> THEN [log |-> log, trie |-> trie, changed |-> changed]
    ELSE
        LET message == Head(messages)
            res == IF \E m \in log : m.timestamp = message.timestamp
                   THEN 0 ELSE 1
        IN  IF res = 1
            THEN IF Parses(message.timestamp)
                 THEN AddLoop(log \cup {message},
                              Insert(trie, parse(message.timestamp)),
                              TRUE, Tail(messages))
                 ELSE AddLoop(log \cup {message}, trie, changed, Tail(messages))
            ELSE AddLoop(log, trie, changed, Tail(messages))

\* add_messages, from the trie that get_merkle read: the group afterwards
\* (the merkle row is replaced only if changed) and the trie returned.
add_messages(group, read, messages) ==
    LET r == AddLoop(group.log, read, FALSE, messages)
    IN  [group |-> [log |-> r.log,
                    merkle |-> IF r.changed THEN r.trie ELSE group.merkle],
         trie |-> r.trie]

\* timestamp LIKE '%' || client_id: the text ends with client_id.  The text
\* ends with the padded node; of the names of the model only a name of 16
\* characters is the end of a text (a shorter one is followed by spaces).
EndsWith(text, client_id) == text.node = client_id

\* ORDER BY timestamp
RECURSIVE OrderByTimestamp(_)
OrderByTimestamp(S) ==
    IF S = {} THEN <<>>
    ELSE LET first == CHOOSE m \in S :
                          \A o \in S \ {m} : StrLess(m.timestamp, o.timestamp)
         IN  <<first>> \o OrderByTimestamp(S \ {first})

\* find_late_messages
find_late_messages(log, client_id, timestamp) ==
    OrderByTimestamp({m \in log : /\ StrLess(timestamp, m.timestamp)
                                  /\ ~EndsWith(m.timestamp, client_id)})

(***************************************************************************)
(* The client syncer (client/src/syncer.rs).                                *)
(***************************************************************************)
\* RowParam {id, column, value}; NoId is id: None.
NoId == "None"

RowParam(id, column, value) == [id |-> id, column |-> column, value |-> value]

RECURSIVE EmitLoopOneSend(_, _, _, _, _, _)
EmitLoopOneSend(timer, phys, table, row_params, id, skipNoId) ==
    IF row_params = <<>> THEN [err |-> "Ok", timer |-> timer, messages |-> <<>>]
    ELSE
        LET x == Head(row_params)
            next_time == Send(timer, phys)
            rest == EmitLoopOneSend(timer, phys, table, Tail(row_params), id,
                                    skipNoId)
            message == Message(to_string(next_time.ts), table,
                               IF x.id = NoId THEN id ELSE x.id,
                               x.column, x.value)
        IN  IF skipNoId /\ x.id = NoId THEN rest
            ELSE [err |-> next_time.err, timer |-> next_time.ts,
                  messages |-> <<message>> \o rest.messages]

\* The loop of Syncer::insert and Syncer::update: one send() and one message
\* for each parameter (update skips a parameter without id).  An error of
\* send() ends the call; the clock keeps the ticks already made.
RECURSIVE EmitLoop(_, _, _, _, _, _)
EmitLoop(timer, phys, table, row_params, id, skipNoId) ==
    IF row_params = <<>> THEN [err |-> "Ok", timer |-> timer, messages |-> <<>>]
    ELSE
        LET x == Head(row_params)
        IN  IF skipNoId /\ x.id = NoId
            THEN EmitLoop(timer, phys, table, Tail(row_params), id, skipNoId)
            ELSE
                LET next_time == Send(timer, phys)
                    rest == EmitLoop(next_time.ts, phys, table,
                                     Tail(row_params), id, skipNoId)
                    message == Message(to_string(next_time.ts), table,
                                       IF x.id = NoId THEN id ELSE x.id,
                                       x.column, x.value)
                IN  IF next_time.err # "Ok"
                    THEN [err |-> next_time.err, timer |-> timer,
                          messages |-> <<>>]
                    ELSE [err |-> rest.err, timer |-> rest.timer,
                          messages |-> <<message>> \o rest.messages]

\* The calls of the todo application (main.rs: add_task, update_task and
\* remove_task) and an update with a parameter without id.
RowParamLists(id) ==
    {<<RowParam(NoId, "content", "a"), RowParam(NoId, "todo_type", "t")>>,
     <<RowParam(id, "content", "b"), RowParam(id, "todo_type", "t")>>,
     <<RowParam(id, "content", "b"), RowParam(NoId, "todo_type", "t"),
       RowParam(id, "tombstone", "0")>>,
     <<RowParam(id, "tombstone", "1")>>}

\* The loop of Syncer::receive_messages: recv() of every timestamp that
\* parses.  An error of recv() ends the call.
RECURSIVE RecvLoop(_, _, _)
RecvLoop(timer, phys, messages) ==
    IF messages = <<>> THEN [err |-> "Ok", timer |-> timer]
    ELSE IF Parses(Head(messages).timestamp)
    THEN LET r == Recv(timer, parse(Head(messages).timestamp), phys)
         IN  IF r.err # "Ok" THEN [err |-> r.err, timer |-> timer]
             ELSE RecvLoop(r.ts, phys, Tail(messages))
    ELSE RecvLoop(timer, phys, Tail(messages))

ReceiveNoRecv(cl, phys, messages) == apply_messages(cl, messages)

RECURSIVE ReceiveOneByOne(_, _, _)
ReceiveOneByOne(cl, phys, messages) ==
    IF messages = <<>> THEN [err |-> "Ok", cl |-> cl]
    ELSE LET r == RecvLoop(cl.timer, phys, <<Head(messages)>>)
             a == apply_messages([cl EXCEPT !.timer = r.timer], <<Head(messages)>>)
         IN  IF r.err # "Ok" THEN [err |-> r.err, cl |-> cl]
             ELSE IF a.err # "Ok" THEN a
             ELSE ReceiveOneByOne(a.cl, phys, Tail(messages))

\* Syncer::receive_messages
receive_messages(cl, phys, messages) ==
    LET r == RecvLoop(cl.timer, phys, messages)
        ticked == [cl EXCEPT !.timer = r.timer]
    IN  IF r.err # "Ok" THEN [err |-> r.err, cl |-> ticked]
        ELSE apply_messages(ticked, messages)

\* The retain of Syncer::sync: with since, the messages not older than the
\* text of Timestamp::new(since, 0, "").
Retain(messages, since) ==
    IF since.tag = "Some"
    THEN SelectSeq(messages,
             LAMBDA msg : ~StrLess(msg.timestamp,
                                   to_string(Timestamp(since.val, 0, ""))))
    ELSE messages

\* An operation on a client: which one (op), where it is (pc), the since and
\* the messages of the sync round, the trie the server handler holds, the
\* diff time it computed, and how the last operation ended; quiet: since
\* the operation began, neither the client's store nor the server changed;
\* rounds: the calls of sync so far in the operation; base: how many
\* timestamps the client had applied when the first was made; alone: since
\* then no request of another client has changed the server; held: the
\* threads of the application that are between taking the Syncer's Mutex
\* and dropping its guard.
NoCall == [op |-> "none", pc |-> "idle", since |-> None, messages |-> <<>>,
           merkle |-> NewTrie, trie |-> NewTrie, diff_time |-> None,
           result |-> "none", quiet |-> FALSE,
           rounds |-> 0, base |-> 0, alone |-> TRUE, held |-> {}]

\* The thread of the application that runs an operation: the thread main
\* spawns for the periodic sync, or the main thread (the menu).
ThreadOf(op) == IF op = "periodic" THEN "sync" ELSE "main"

LockBroken(c) == calls[c].pc # "panicked"

\* TodoSyncer::global().lock().unwrap(): the thread goes on when no thread
\* holds the Mutex (a thread that panicked holding it has poisoned it).
lock(c) == calls[c].held = {} /\ calls[c].pc # "panicked"

\* The call record of a thread that has taken the Mutex for op; a thread
\* that has returned from op has dropped the guard.
Locked(c, op, call) ==
    [call EXCEPT !.held = IF call.pc = "posted"
                          THEN calls[c].held \cup {ThreadOf(op)}
                          ELSE calls[c].held]

\* The clients of Spec, by node name: the default name of Syncer::new and a
\* name of 16 characters.
Clients == {"CLIENT", "1a2b3c4d5e6f7a8b"}

NoStoreOp == [kind |-> "none", err |-> "Ok", first |-> NewSyncer("CLIENT"),
              fresh |-> 0, n |-> 0, clean |-> TRUE]

\* What SpecTrie inserts.
TrieTimestamps ==
    {Timestamp(ms, 0, "local") : ms \in 0..MaxMillis}
        \cup {Timestamp(0, 1, "local"), Timestamp(BASE, 1, "local")}

NoInserts == [bag |-> <<>>, last |-> Timestamp(0, 0, "")]

Inserted(ins, t) ==
    [bag |-> IF t \in DOMAIN ins.bag THEN [ins.bag EXCEPT ![t] = @ + 1]
             ELSE ins.bag @@ (t :> 1),
     last |-> t]

\* The timestamps inserted at least once.
Members(ins) == DOMAIN ins.bag

(***************************************************************************)
(* SpecHLC: one clock.  The clock is built by Timestamp::new, so it starts  *)
(* at any millis and counter; every call reads any wall time, so the wall   *)
(* clock may stall or go backwards between calls.                          *)
(***************************************************************************)
PhysTimes == 1..MaxPhys

\* Clock values behind, at and too far ahead of the wall clock.
HlcMillis == {0, MaxPhys, MaxPhys + MAX_DRIFT, MaxPhys + MAX_DRIFT + 1}

RemoteTimestamps ==
    {Timestamp(ms, c, "remote") : ms \in HlcMillis, c \in {0, 1, MAX_COUNTER}}
        \cup {Timestamp(MaxPhys, 0, "local")}

NoOp == [kind |-> "none", err |-> "Ok", before |-> Timestamp(0, 0, ""),
         other |-> Timestamp(0, 0, ""), phys |-> 0, n |-> 0]

\* The variables of the other specifications, at rest.
HlcIdle == hlc = Timestamp(0, 0, "local") /\ hlcLog = <<>> /\ hlcOp = NoOp

NoCodec == [Base |-> BASE, millis |-> 0, pc |-> "idle", key |-> <<>>,
            decoded |-> None]

TrieIdle ==
    /\ m1 = NewTrie /\ m2 = NewTrie /\ ins1 = NoInserts /\ ins2 = NoInserts
    /\ codec = NoCodec

\* The application's threads: the main thread (the menu) and the thread of
\* the periodic sync; no thread has called lock() yet.
Threads == {"main", "sync"}

NoApp == [separate |-> FALSE, pc |-> [t \in Threads |-> "idle"],
          op |-> [t \in Threads |-> "none"], syncer |-> {}, storage |-> {},
          rounds |-> 0, started |-> 0, done |-> 0, poisoned |-> FALSE,
          exited |-> FALSE]

LockIdle == app = NoApp

StoreIdle == store = NewSyncer("CLIENT") /\ storeOp = NoStoreOp /\ storeLog = {}

SysIdle ==
    /\ clients = [c \in Clients |-> NewSyncer(c)]
    /\ calls = [c \in Clients |-> NoCall]
    /\ server = [g \in ServerGroups |-> NewGroup]
    /\ issued = 0
    /\ synced = 0

InitHLC ==
    /\ hlc \in {Timestamp(ms, c, "local") :
                  ms \in HlcMillis, c \in {0, MAX_COUNTER - 1}}
    /\ hlcLog = <<>>
    /\ hlcOp = NoOp
    /\ TrieIdle /\ StoreIdle /\ SysIdle /\ LockIdle

DoSend ==
    /\ hlcOp.n < MaxHlcOps
    /\ \E phys \in PhysTimes :
         LET r == Send(hlc, phys)
         IN  /\ hlc' = r.ts
             /\ hlcLog' = IF r.err = "Ok"
                          THEN Append(hlcLog, [kind |-> "send", ts |-> r.ts])
                          ELSE hlcLog
             /\ hlcOp' = [kind |-> "send", err |-> r.err, before |-> hlc,
                          other |-> hlc, phys |-> phys, n |-> hlcOp.n + 1]
    /\ UNCHANGED <<trieVars, storeVars, sysVars, lockVars>>

DoRecv ==
    /\ hlcOp.n < MaxHlcOps
    /\ \E phys \in PhysTimes, other \in RemoteTimestamps :
         LET r == Recv(hlc, other, phys)
         IN  /\ hlc' = r.ts
             /\ hlcLog' = IF r.err = "Ok"
                          THEN Append(hlcLog, [kind |-> "recv", ts |-> other])
                          ELSE hlcLog
             /\ hlcOp' = [kind |-> "recv", err |-> r.err, before |-> hlc,
                          other |-> other, phys |-> phys, n |-> hlcOp.n + 1]
    /\ UNCHANGED <<trieVars, storeVars, sysVars, lockVars>>

NextHLC == DoSend \/ DoRecv

SpecHLC == InitHLC /\ [][NextHLC]_vars

\* C1: every timestamp returned by a successful send() is strictly greater,
\* in (millis, counter) order, than every timestamp an earlier successful
\* send() on the same clock returned, whatever the wall clock read and
\* whatever recv() calls came between; so the returned timestamps are distinct.
C1_SendStrictlyIncreasing ==
    \A i, j \in 1..Len(hlcLog) :
        (i < j /\ hlcLog[i].kind = "send" /\ hlcLog[j].kind = "send")
            => /\ TsLess(hlcLog[i].ts, hlcLog[j].ts)
               /\ hlcLog[i].ts # hlcLog[j].ts

\* Three sends with a recv between them, the wall clock not having advanced
\* past the clock (the counter had to break the tie).
C1_Witness ==
    /\ Len(hlcLog) >= 3
    /\ hlcLog[1].kind = "send" /\ hlcLog[2].kind = "recv"
    /\ hlcLog[3].kind = "send"
    /\ hlcLog[1].ts.millis = hlcLog[3].ts.millis

\* C2: after a successful recv(other) the clock is strictly greater, in
\* (millis, counter) order, than its value before the call and than other,
\* and every timestamp a later send() returns is greater than other.
C2_RecvHappensBefore ==
    /\ (hlcOp.kind = "recv" /\ hlcOp.err = "Ok")
          => /\ TsLess(hlcOp.before, hlc)
             /\ TsLess(hlcOp.other, hlc)
    /\ \A i, j \in 1..Len(hlcLog) :
          (i < j /\ hlcLog[i].kind = "recv" /\ hlcLog[j].kind = "send")
              => TsLess(hlcLog[i].ts, hlcLog[j].ts)

\* A recv of a timestamp ahead of both the clock and the wall clock, followed
\* by a send.
C2_Witness ==
    /\ Len(hlcLog) >= 2
    /\ hlcLog[Len(hlcLog) - 1].kind = "recv"
    /\ hlcLog[Len(hlcLog)].kind = "send"
    /\ hlcOp.kind = "send" /\ hlcOp.err = "Ok"
    /\ hlcLog[Len(hlcLog) - 1].ts.millis = hlcLog[Len(hlcLog)].ts.millis
    /\ hlcLog[Len(hlcLog) - 1].ts.counter > 0

(***************************************************************************)
(* SpecTrie: two tries, each built from MerkleTrie::new by insert() calls.  *)
(***************************************************************************)
InitTrie ==
    /\ m1 = NewTrie /\ m2 = NewTrie
    /\ ins1 = NoInserts /\ ins2 = NoInserts
    /\ codec = NoCodec
    /\ HlcIdle /\ StoreIdle /\ SysIdle /\ LockIdle

Insert1 ==
    /\ m1.length < MaxInserts
    /\ \E t \in TrieTimestamps :
         /\ m1' = Insert(m1, t)
         /\ ins1' = Inserted(ins1, t)
    /\ UNCHANGED <<m2, ins2, codec, hlcVars, storeVars, sysVars, lockVars>>

Insert2 ==
    /\ m2.length < MaxInserts
    /\ \E t \in TrieTimestamps :
         /\ m2' = Insert(m2, t)
         /\ ins2' = Inserted(ins2, t)
    /\ UNCHANGED <<m1, ins1, codec, hlcVars, storeVars, sysVars, lockVars>>

NextTrie == Insert1 \/ Insert2

SpecTrie == InitTrie /\ [][NextTrie]_vars

\* The XOR of the digests of the timestamps of T, each as often as the bag
\* holds it (a digest XORed in twice cancels).
XorOf(bag, T) ==
    {i \in 0..(HashBits - 1) :
        Cardinality({t \in T : bag[t] % 2 = 1 /\ i \in Hash(t)}) % 2 = 1}

IsPrefix(p, key) == Len(p) <= Len(key) /\ SubSeq(key, 1, Len(p)) = p

Under(ins, p) == {t \in Members(ins) : IsPrefix(p, timestamp_to_key(t))}

HashesAreSubtreeXors(trie, ins) ==
    /\ root_hash(trie) = XorOf(ins.bag, Members(ins))
    /\ \A p \in DOMAIN trie.nodes :
          /\ trie.nodes[p].hash = XorOf(ins.bag, Under(ins, p))
          /\ p # <<>> => Under(ins, p) # {}
    /\ \A t \in Members(ins) : timestamp_to_key(t) \in DOMAIN trie.nodes

\* C3: after any sequence of insert calls the root hash is the XOR of the
\* hashes of all inserted timestamps (duplicates counted) and every node's
\* hash is the XOR of the hashes of exactly the inserted timestamps whose key
\* has the node's path as a prefix.
C3_HashIsXorOfSubtree ==
    /\ HashesAreSubtreeXors(m1, ins1)
    /\ HashesAreSubtreeXors(m2, ins2)

\* Two timestamps under one inner node, and one inserted twice elsewhere.
C3_Witness ==
    /\ m1.length = 2 /\ m2.length = 2
    /\ Cardinality(Members(ins1)) = 2
    /\ \E p \in DOMAIN m1.nodes : p # <<>> /\ Cardinality(Under(ins1, p)) = 2
    /\ Cardinality(Members(ins2)) = 1

HashOf(trie) == [p \in DOMAIN trie.nodes |-> trie.nodes[p].hash]

\* C4: two tries built from the same multiset of timestamps, in whatever
\* orders, have the same nodes with the same hash at every node.
C4_OrderIndependent ==
    ins1.bag = ins2.bag => HashOf(m1) = HashOf(m2)

\* The same two timestamps went into both tries, in opposite orders.
C4_Witness ==
    /\ ins1.bag = ins2.bag
    /\ Cardinality(Members(ins1)) = 2
    /\ ins1.last # ins2.last

Distinct(ins) == \A t \in Members(ins) : ins.bag[t] = 1

\* C5: a.diff(b) == b.diff(a) for all tries a and b built by insert calls,
\* empty tries included: both calls return, and return the same value.
C5_DiffSymmetric ==
    /\ Diff(m1, m2).tag # "Panic"
    /\ Diff(m2, m1).tag # "Panic"
    /\ Diff(m1, m2) = Diff(m2, m1)

\* C6: for tries built by inserting distinct timestamps, if a timestamp t is
\* in a and not in b then a.diff(b) is Some(d) with d <= t.millis.
C6_DiffLowerBound ==
    (Distinct(ins1) /\ Distinct(ins2)) =>
        \A t \in Members(ins1) \ Members(ins2) :
            /\ Diff(m1, m2).tag = "Some"
            /\ Diff(m1, m2).val <= t.millis

PairwiseDistinctHashes ==
    \A t, u \in Members(ins1) \cup Members(ins2) : t # u => Hash(t) # Hash(u)

\* C7 as stated: for tries built from sets of distinct timestamps no two of
\* which share a hash, diff returns None if and only if the sets are equal.
C7_NoneIffSameSet ==
    (Distinct(ins1) /\ Distinct(ins2) /\ PairwiseDistinctHashes) =>
        ((Diff(m1, m2) = None) <=> (Members(ins1) = Members(ins2)))

\* C7, amended: for tries built from sets of distinct timestamps, diff returns
\* None whenever the sets are equal, and it returns None exactly when both
\* tries are empty or both are non-empty and the XOR of the hashes of the one
\* set equals the XOR of the hashes of the other.
C7_NoneIffSameXor ==
    (Distinct(ins1) /\ Distinct(ins2)) =>
        /\ (Members(ins1) = Members(ins2)) => (Diff(m1, m2) = None)
        /\ (Diff(m1, m2) = None) <=>
              \/ is_empty(m1) /\ is_empty(m2)
              \/ /\ ~is_empty(m1) /\ ~is_empty(m2)
                 /\ XorOf(ins1.bag, Members(ins1)) = XorOf(ins2.bag, Members(ins2))

\* Two tries holding the same two timestamps, inserted in opposite orders,
\* and compared.
C7_Witness ==
    /\ Distinct(ins1) /\ Distinct(ins2)
    /\ Members(ins1) = Members(ins2)
    /\ Cardinality(Members(ins1)) = 2
    /\ ins1.last # ins2.last
    /\ Diff(m1, m2) = None

(***************************************************************************)
(* SpecStore: one client store.  apply_messages is called with any batch   *)
(* of messages, once (DoApply) or twice in a row with the same batch       *)
(* (DoApplyTwice).                                                         *)
(***************************************************************************)
StoreText(ms, c) == to_string(Timestamp(ms, c, "remote"))

\* Writes to one field at every millis and a second value at the first, a
\* delete, a value the handler rejects, another table, another row with a
\* timestamp that does not parse.
StoreMessages ==
    {Message(StoreText(ms, 0), TODO_TABLE, "r1", "content", "a") :
         ms \in 1..MaxStoreMillis}
      \cup {Message(StoreText(1, 0), TODO_TABLE, "r1", "content", "b"),
            Message(StoreText(MaxStoreMillis, 1), TODO_TABLE, "r1", "tombstone", "1"),
            Message(StoreText(1, 1), TODO_TABLE, "r1", "tombstone", "x"),
            Message(StoreText(MaxStoreMillis, 2), "other", "r1", "content", "b"),
            Message(to_string(Timestamp(1, 0, "my-laptop")), TODO_TABLE, "r2",
                    "content", "a")}

Batches == UNION {[1..n -> StoreMessages] : n \in 1..MaxBatch}

InitStore == StoreIdle /\ HlcIdle /\ TrieIdle /\ SysIdle /\ LockIdle

\* The messages of the batch that put their timestamp in applied: for each
\* new timestamp the first message of the sorted batch that carries it.
NewlyApplied(before, after, batch) ==
    LET sorted == SelectSeq(SortByTimestamp(batch),
                            LAMBDA m : m.dataset = TODO_TABLE)
    IN  {sorted[k] : k \in {k \in 1..Len(sorted) :
            /\ sorted[k].timestamp \in after.applied \ before.applied
            /\ \A j \in 1..(k - 1) : sorted[j].timestamp # sorted[k].timestamp}}

\* The batch holds a message of another table than the store's.
Foreign(batch) == \E i \in 1..Len(batch) : batch[i].dataset # TODO_TABLE

DoApply ==
    /\ storeOp.n < MaxApplies
    /\ \E batch \in Batches :
         LET r == apply_messages(store, batch)
         IN  /\ store' = r.cl
             /\ storeOp' = [kind |-> "apply", err |-> r.err, first |-> r.cl,
                            fresh |-> Cardinality(r.cl.applied \ store.applied),
                            n |-> storeOp.n + 1,
                            clean |-> storeOp.clean /\ r.err = "Ok"]
             /\ storeLog' = storeLog \cup NewlyApplied(store, r.cl, batch)
    /\ UNCHANGED <<hlcVars, trieVars, sysVars, lockVars>>

DoApplyTwice ==
    /\ storeOp.n < MaxApplies
    /\ \E batch \in Batches :
         LET r == apply_messages(store, batch)
             again == apply_messages(r.cl, batch)
         IN  /\ store' = again.cl
             /\ storeOp' = [kind |-> "twice", err |-> again.err, first |-> r.cl,
                            fresh |-> Cardinality(r.cl.applied \ store.applied),
                            n |-> storeOp.n + 1,
                            clean |-> storeOp.clean /\ r.err = "Ok"
                                        /\ again.err = "Ok"]
             /\ storeLog' = storeLog \cup NewlyApplied(store, r.cl, batch)
                                     \cup NewlyApplied(r.cl, again.cl, batch)
    /\ UNCHANGED <<hlcVars, trieVars, sysVars, lockVars>>

NextStore == DoApply \/ DoApplyTwice

SpecStore == InitStore /\ [][NextStore]_vars

\* C8: after apply_messages was called twice with the same batch, the
\* records, the applied set and the merkle trie (every node's hash and stored
\* flag, and the length) are as the first call left them.
C8_ApplyIdempotent ==
    storeOp.kind = "twice" =>
        /\ store.items = storeOp.first.items
        /\ store.applied = storeOp.first.applied
        /\ store.merkle = storeOp.first.merkle

\* A batch was applied twice to a store that already held a timestamp, and
\* its first application had put two more timestamps into the trie.
C8_Witness ==
    /\ storeOp.kind = "twice"
    /\ storeOp.fresh = 2
    /\ storeOp.first.merkle.length = 3
    /\ store.merkle.length = 3

\* The value a message gives to its field.
FieldOf(item, column) ==
    IF column = "content" THEN item.content
    ELSE IF column = "todo_type" THEN item.todo_type
    ELSE IF item.tombstone = 1 THEN "1" ELSE "0"

\* C9: when no call has failed, for every two applied messages for the same
\* (dataset, row, column), the field of the record holds the value of the
\* applied message for that field with the largest timestamp, whether the
\* two came in one batch or in two calls, in either order.
C9_LastWriterWins ==
    storeOp.clean =>
        \A older \in storeLog, newer \in storeLog :
            (/\ older.row = newer.row /\ older.column = newer.column
             /\ StrLess(older.timestamp, newer.timestamp)
             /\ \A o \in storeLog :
                    (o.row = newer.row /\ o.column = newer.column)
                        => ~StrLess(newer.timestamp, o.timestamp))
                => FieldOf(store.items[newer.row], newer.column) = newer.value

(***************************************************************************)
(* Spec: the todo application (client/examples/todo/main.rs) on every      *)
(* client, and the server.  A client runs one operation at a time (the     *)
(* Syncer is behind a Mutex held for the whole operation): a mutation of    *)
(* the menu or the periodic sync.  One sync round is three steps: the      *)
(* client posts the request and the handler reads the stored trie           *)
(* (get_merkle); the handler adds the messages and computes the diff       *)
(* (add_messages, diff); the handler reads the late messages and the       *)
(* client handles the response.  The server locks the database in each of  *)
(* get_merkle, add_messages and find_late_messages separately, so the      *)
(* steps of the rounds of two clients interleave.  The transport works.    *)
(***************************************************************************)
\* Wall-clock readings, all with a key of two digits.
SysPhysTimes == BASE..(BASE + MaxSysPhys - 1)

Values == {"a", "b"}

\* uuid::Uuid::new_v4(): a row id no earlier insert has used.
NewId(n) ==
    CASE n = 0 -> "r1" [] n = 1 -> "r2" [] n = 2 -> "r3" [] OTHER -> "r4"

RECURSIVE InsertTimestamps(_, _)
InsertTimestamps(trie, messages) ==
    IF messages = <<>> THEN trie
    ELSE InsertTimestamps(Insert(trie, parse(Head(messages).timestamp)),
                          Tail(messages))

EmitInsertOnSend(cl, phys, table, row_params, id, skipNoId) ==
    LET e == EmitLoop(cl.timer, phys, table, row_params, id, skipNoId)
        ticked == [cl EXCEPT !.timer = e.timer,
                             !.merkle = InsertTimestamps(@, e.messages)]
    IN  IF e.err # "Ok" THEN [err |-> e.err, cl |-> ticked, messages |-> <<>>]
        ELSE LET a == apply_messages(ticked, e.messages)
             IN  [err |-> a.err, cl |-> a.cl, messages |-> e.messages]

\* Syncer::insert, update and delete up to the call of sync: the ticks of
\* the clock, the messages, and apply_messages of send_messages.
Emit(cl, phys, table, row_params, id, skipNoId) ==
    LET e == EmitLoop(cl.timer, phys, table, row_params, id, skipNoId)
        ticked == [cl EXCEPT !.timer = e.timer]
    IN  IF e.err # "Ok" THEN [err |-> e.err, cl |-> ticked, messages |-> <<>>]
        ELSE LET a == apply_messages(ticked, e.messages)
             IN  [err |-> a.err, cl |-> a.cl, messages |-> e.messages]

syncer_insert(cl, phys, table, row_params, id) ==
    Emit(cl, phys, table, row_params, id, FALSE)

syncer_update(cl, phys, table, row_params) ==
    Emit(cl, phys, table, row_params, NoId, TRUE)

syncer_delete(cl, phys, table, id) ==
    Emit(cl, phys, table, <<RowParam(id, "tombstone", "1")>>, NoId, FALSE)

\* The end of an operation.  remove_task unwraps the result of delete: on
\* an error the thread panics with the Mutex held, and the client is lost.
\* The record keeps base.
Finished(op, result, quiet, base) ==
    [NoCall EXCEPT !.op = op, !.result = result, !.quiet = quiet,
                   !.base = base,
                   !.pc = IF op = "remove_task" /\ result # "Ok"
                          THEN "panicked" ELSE "idle"]

\* The start of a round of Syncer::sync: the request is posted and the
\* handler has read the stored trie.
Posted(op, cl, messages, since, quiet) ==
    [op |-> op, pc |-> "posted", since |-> since,
     messages |-> Retain(messages, since), merkle |-> cl.merkle,
     trie |-> get_merkle(server, GROUP_ID), diff_time |-> None,
     result |-> "none", quiet |-> quiet,
     rounds |-> 1, base |-> Cardinality(cl.applied), alone |-> TRUE,
     held |-> {}]

\* The store of a client: what a sync compares and fills.
StoreOf(cl) == [merkle |-> cl.merkle, items |-> cl.items, applied |-> cl.applied]

\* A mutation: cl is the client and r the outcome of its local part.
Mutated(c, op, r) ==
    /\ clients' = [clients EXCEPT ![c] = r.cl]
    /\ calls' = [calls EXCEPT ![c] =
                    Locked(c, op,
                        IF r.err # "Ok" THEN Finished(op, r.err, FALSE, 0)
                        ELSE Posted(op, r.cl, r.messages, None, FALSE))]
    /\ issued' = issued + 1
    /\ UNCHANGED <<server, synced, hlcVars, trieVars, storeVars, lockVars>>

add_task(c) ==
    /\ lock(c)
    /\ issued < MaxMutations
    /\ \E phys \in SysPhysTimes, content \in Values :
         Mutated(c, "add_task",
                 syncer_insert(clients[c], phys, TODO_TABLE,
                               <<RowParam(NoId, "content", content),
                                 RowParam(NoId, "todo_type", "t")>>,
                               NewId(issued)))

update_task(c) ==
    /\ lock(c)
    /\ issued < MaxMutations
    /\ \E phys \in SysPhysTimes, content \in Values,
          id \in DOMAIN clients[c].items :
         Mutated(c, "update_task",
                 syncer_update(clients[c], phys, TODO_TABLE,
                               <<RowParam(id, "content", content),
                                 RowParam(id, "todo_type", "t")>>))

remove_task(c) ==
    /\ lock(c)
    /\ issued < MaxMutations
    /\ \E phys \in SysPhysTimes, id \in DOMAIN clients[c].items :
         Mutated(c, "remove_task",
                 syncer_delete(clients[c], phys, TODO_TABLE, id))

\* The periodic thread: sync(GROUP_ID, vec![], None).
PeriodicSync(c) ==
    /\ lock(c)
    /\ synced < MaxSyncs
    /\ calls' = [calls EXCEPT ![c] =
                    Locked(c, "periodic",
                           Posted("periodic", clients[c], <<>>, None, TRUE))]
    /\ synced' = synced + 1
    /\ UNCHANGED <<clients, server, issued, hlcVars, trieVars, storeVars, lockVars>>

\* The recursive call sync(group_id, vec![], Some(diff_time)).
Repost(c) ==
    /\ calls[c].pc = "again"
    /\ calls' = [calls EXCEPT ![c] =
                    [Posted(calls[c].op, clients[c], <<>>, calls[c].since,
                            calls[c].quiet)
                        EXCEPT !.rounds = calls[c].rounds + 1,
                               !.base = calls[c].base,
                               !.alone = calls[c].alone,
                               !.held = calls[c].held]]
    /\ UNCHANGED <<clients, server, issued, synced, hlcVars, trieVars, storeVars, lockVars>>

\* The handler of POST /sync, from add_messages to diff.  A panic of diff
\* ends the request without a response, after the messages were committed.
ServerAdd(c) ==
    /\ calls[c].pc = "posted"
    /\ LET a == add_messages(server[GROUP_ID], calls[c].trie, calls[c].messages)
           d == Diff(a.trie, calls[c].merkle)
           same == a.group = server[GROUP_ID]
           mine == IF d.tag = "Panic"
                   THEN Finished(calls[c].op, "TransportError",
                                 calls[c].quiet /\ same, calls[c].base)
                   ELSE [calls[c] EXCEPT !.pc = "added", !.trie = a.trie,
                                         !.diff_time = d, !.messages = <<>>,
                                         !.quiet = @ /\ same]
       IN  /\ server' = [server EXCEPT ![GROUP_ID] = a.group]
           /\ calls' = [o \in Clients |->
                  IF o = c THEN mine
                  ELSE [calls[o] EXCEPT !.quiet = @ /\ same,
                                        !.alone = @ /\ (same \/ calls[o].pc = "idle")]]
    /\ UNCHANGED <<clients, issued, synced, hlcVars, trieVars, storeVars, lockVars>>

HandleResponseNoStuck(c, phys, new_messages, trie) ==
    LET call == calls[c]
        rcv == IF new_messages # <<>>
               THEN receive_messages(clients[c], phys, new_messages)
               ELSE [err |-> "Ok", cl |-> clients[c]]
        diff_time == Diff(rcv.cl.merkle, trie)
        quiet == call.quiet /\ StoreOf(rcv.cl) = StoreOf(clients[c])
    IN  [cl |-> rcv.cl,
         call |->
            IF rcv.err # "Ok" THEN Finished(call.op, rcv.err, quiet, call.base)
            ELSE IF diff_time.tag = "Some" /\ diff_time.val > 0
            THEN [NoCall EXCEPT !.op = call.op, !.pc = "again",
                                !.since = diff_time, !.quiet = quiet,
                                !.rounds = call.rounds,
                                !.base = call.base,
                                !.alone = call.alone,
                                !.held = call.held]
            ELSE Finished(call.op, "Ok", quiet, call.base)]

\* What Syncer::sync does with the response: the client afterwards and the
\* call afterwards.
HandleResponse(c, phys, new_messages, trie) ==
    LET call == calls[c]
        rcv == IF new_messages # <<>>
               THEN receive_messages(clients[c], phys, new_messages)
               ELSE [err |-> "Ok", cl |-> clients[c]]
        diff_time == Diff(rcv.cl.merkle, trie)
        quiet == call.quiet /\ StoreOf(rcv.cl) = StoreOf(clients[c])
    IN  [cl |-> rcv.cl,
         call |->
            IF rcv.err # "Ok" THEN Finished(call.op, rcv.err, quiet, call.base)
            ELSE IF diff_time.tag = "Panic"
            THEN [NoCall EXCEPT !.op = call.op, !.result = "panic",
                                !.pc = "panicked", !.base = call.base]
            ELSE IF diff_time.tag = "Some" /\ diff_time.val > 0
            THEN IF call.since = diff_time
                 THEN Finished(call.op, "SyncStuck", quiet, call.base)
                 ELSE [NoCall EXCEPT !.op = call.op, !.pc = "again",
                                     !.since = diff_time, !.quiet = quiet,
                                     !.rounds = call.rounds,
                                     !.base = call.base,
                                     !.alone = call.alone,
                                     !.held = call.held]
            ELSE Finished(call.op, "Ok", quiet, call.base)]

\* The messages of the response: those find_late_messages returns when the
\* diff found a time, none otherwise.
new_messages(c) ==
    LET d == calls[c].diff_time
    IN  IF d.tag = "Some"
        THEN find_late_messages(server[GROUP_ID].log, clients[c].node_name,
                 to_string(Timestamp(d.val, 0, NODE_NAME)))
        ELSE <<>>

\* The handler of POST /sync from find_late_messages on, and the client on
\* the response.
Respond(c) ==
    /\ calls[c].pc = "added"
    /\ \E phys \in SysPhysTimes :
         LET h == HandleResponse(c, phys, new_messages(c), calls[c].trie)
         IN  /\ clients' = [clients EXCEPT ![c] = h.cl]
             /\ calls' = [calls EXCEPT ![c] = h.call]
    /\ UNCHANGED <<server, issued, synced, hlcVars, trieVars, storeVars, lockVars>>

Init == SysIdle /\ HlcIdle /\ TrieIdle /\ StoreIdle /\ LockIdle

Next ==
    \E c \in Clients :
        \/ add_task(c)
        \/ update_task(c)
        \/ remove_task(c)
        \/ PeriodicSync(c)
        \/ Repost(c)
        \/ ServerAdd(c)
        \/ Respond(c)

Spec == Init /\ [][Next]_vars

\* One application (the main thread and the thread of the periodic sync
\* of the client named by default) and the server; SpecOne starts from a
\* server that may hold messages of earlier runs (InitOne).
NextOne ==
    \/ add_task("CLIENT")
    \/ update_task("CLIENT")
    \/ remove_task("CLIENT")
    \/ PeriodicSync("CLIENT")
    \/ Repost("CLIENT")
    \/ ServerAdd("CLIENT")
    \/ Respond("CLIENT")


\* The client's trie equals the server's and the client has applied exactly
\* the messages of the group's log.
InSync(c) ==
    /\ clients[c].merkle = server[GROUP_ID].merkle
    /\ clients[c].applied = {m.timestamp : m \in server[GROUP_ID].log}

\* The stored trie of the group holds the timestamps of its log, each once
\* (no update of the trie was lost between two requests).
ServerTrieOfLog ==
    LET T == {parse(m.timestamp) : m \in server[GROUP_ID].log}
    IN  /\ server[GROUP_ID].merkle.length = Cardinality(T)
        /\ HashesAreSubtreeXors(server[GROUP_ID].merkle,
                                [bag |-> [t \in T |-> 1], last |-> Timestamp(0, 0, "")])

\* C10: when nothing is in progress, the server's trie holds its log, and the
\* last operation of a client was a periodic sync during and since which
\* neither the server nor the client's store changed (so that, no further
\* mutation being issued, every later sync call of the client does the same
\* again), the client's trie equals the server's and its applied set is the
\* set of the timestamps of the group's log.
C10_SyncConverges ==
    \A c \in Clients :
        (/\ \A o \in Clients : calls[o].pc = "idle"
         /\ ServerTrieOfLog
         /\ calls[c].op = "periodic"
         /\ calls[c].quiet)
            => InSync(c)

(***************************************************************************)
(* SpecSync: periodic syncs against a server that already holds messages.  *)
(* Other nodes have written the log; no mutation is issued any more.  The   *)
(* group's stored trie holds the timestamps of the log, or of a part of it  *)
(* when two of the writers' requests ran into each other (the trie is read  *)
(* before add_messages takes the lock, and the later commit replaces the   *)
(* earlier; the last commit's timestamps are in the trie, and a node's     *)
(* requests follow one another).  The client with the 16-character name synced from empty when *)
(* the log held any part of what it holds now; the client with the default  *)
(* name is new (the store is in memory: the application has just started). *)
(***************************************************************************)
\* What the writers logged: two fields of one insert at one millisecond by
\* the node with the default name, and writes by a node whose name sorts
\* after the server's.
Logged ==
    <<Message(to_string(Timestamp(BASE, 0, "CLIENT")), TODO_TABLE, "r1",
              "content", "a"),
      Message(to_string(Timestamp(BASE, 1, "CLIENT")), TODO_TABLE, "r1",
              "todo_type", "t"),
      Message(to_string(Timestamp(BASE + 1, 0, "f0e1d2c3b4a59687")), TODO_TABLE,
              "r1", "content", "b"),
      Message(to_string(Timestamp(BASE, 0, "f0e1d2c3b4a59687")), TODO_TABLE,
              "r2", "content", "a"),
      Message(to_string(Timestamp(BASE + 2, 0, "CLIENT")), TODO_TABLE, "r1",
              "tombstone", "1")>>

LoggedMessages == {Logged[i] : i \in 1..Min(MaxLogged, Len(Logged))}

\* The node that wrote a message (the node of its timestamp text).
AuthorOf(m) == m.timestamp.node

\* The stored trie for a log: the timestamps of the log, but for those whose
\* commit a request of another node replaced.
StoredTries(log) ==
    {kept \in SUBSET log :
        /\ log # {} => kept # {}
        /\ \A m \in log \ kept : \E o \in log : AuthorOf(o) # AuthorOf(m)}

\* The trie add_messages builds from the timestamps of a set of messages.
RECURSIVE InsertAll(_, _)
InsertAll(trie, messages) ==
    IF messages = <<>> THEN trie
    ELSE InsertAll(Insert(trie, parse(Head(messages).timestamp)), Tail(messages))

TrieOfMessages(S) == InsertAll(NewTrie, OrderByTimestamp(S))

\* What the log may have held earlier: a node's messages reach the server
\* in the order of their timestamps.
EarlierLogs(log) ==
    {had \in SUBSET log :
        \A m \in had, o \in log :
            (AuthorOf(o) = AuthorOf(m) /\ StrLess(o.timestamp, m.timestamp))
                => o \in had}

\* The client after a sync from empty that brought it the messages of S.
SyncedFromEmpty(c, S) ==
    IF S = {} THEN NewSyncer(c)
    ELSE receive_messages(NewSyncer(c), BASE + MaxSysPhys - 1,
                          OrderByTimestamp(S)).cl

InitSync ==
    /\ \E log \in SUBSET LoggedMessages :
         \E kept \in StoredTries(log), had \in EarlierLogs(log) :
            /\ server = [g \in ServerGroups |->
                            [log |-> log, merkle |-> TrieOfMessages(kept)]]
            /\ clients = [c \in Clients |->
                             IF c = "CLIENT" THEN NewSyncer(c)
                             ELSE SyncedFromEmpty(c, had)]
    /\ calls = [c \in Clients |-> NoCall]
    /\ issued = 0
    /\ synced = 0
    /\ HlcIdle /\ TrieIdle /\ StoreIdle /\ LockIdle

NextSync ==
    \E c \in Clients :
        \/ PeriodicSync(c)
        \/ Repost(c)
        \/ ServerAdd(c)
        \/ Respond(c)

SpecSync == InitSync /\ [][NextSync]_vars

\* The server is new or holds the messages of earlier runs and their trie;
\* the clients have just started.
InitOne ==
    /\ \E log \in {{}, LoggedMessages} :
          server = [g \in ServerGroups |->
                      [log |-> log, merkle |-> TrieOfMessages(log)]]
    /\ clients = [c \in Clients |-> NewSyncer(c)]
    /\ calls = [c \in Clients |-> NoCall]
    /\ issued = 0
    /\ synced = 0
    /\ HlcIdle /\ TrieIdle /\ StoreIdle /\ LockIdle

SpecOne == InitOne /\ [][NextOne]_vars

InProgress(c) == calls[c].pc \in {"posted", "added", "again"}

FieldLog(log, row, column) == {m \in log : m.row = row /\ m.column = column}

\* The records hold, in every field the log writes, the value of the
\* message of the log with the largest timestamp for that field.
RecordsReflect(items, log) ==
    \A m \in log :
        (\A o \in FieldLog(log, m.row, m.column) :
             ~StrLess(m.timestamp, o.timestamp))
            => /\ m.row \in DOMAIN items
               /\ FieldOf(items[m.row], m.column) = m.value

\* C12: when a periodic sync of a client that had applied nothing, and whose
\* node id is the author of no message of the log, has ended against a
\* server holding messages, the call has returned Ok, the client has applied
\* every message of the group's log, its merkle trie equals the server's, and
\* its records reflect the messages.
C12_EmptyClientCatchesUp ==
    \A c \in Clients :
        (/\ calls[c].pc = "idle" /\ calls[c].op = "periodic"
         /\ calls[c].base = 0
         /\ server[GROUP_ID].log # {}
         /\ \A m \in server[GROUP_ID].log : AuthorOf(m) # Pad(c))
            => /\ calls[c].result = "Ok"
               /\ clients[c].applied = {m.timestamp : m \in server[GROUP_ID].log}
               /\ clients[c].merkle = server[GROUP_ID].merkle
               /\ RecordsReflect(clients[c].items, server[GROUP_ID].log)

Range(seq) == {seq[i] : i \in 1..Len(seq)}

\* The messages of the log whose timestamp the client's trie does not hold
\* (the trie holds the timestamps the client has applied).
Lacking(c) ==
    {m \in server[GROUP_ID].log : m.timestamp \notin clients[c].applied}

\* C13: in a sync exchange, once the server has added the request's messages
\* (its stored trie holding its whole log), if the server's trie differs from
\* the trie the client sent then the response holds every message of the
\* group's log whose timestamp is not in the client's trie.
C13_ResponseComplete ==
    \A c \in Clients :
        (/\ calls[c].pc = "added"
         /\ ServerTrieOfLog
         /\ calls[c].trie = server[GROUP_ID].merkle
         /\ calls[c].trie # calls[c].merkle)
            => Lacking(c) \subseteq Range(new_messages(c))

\* The floor the handler passes to find_late_messages for a diff time.
Floor(d) == to_string(Timestamp(d.val, 0, NODE_NAME))

Ascending(seq) ==
    \A i, j \in 1..Len(seq) : i < j => StrLess(seq[i].timestamp, seq[j].timestamp)

\* C14: find_late_messages(group, client_id, since), as the handler calls
\* it, returns exactly the messages of the group's log whose timestamp is
\* greater than since and whose author is not the node client_id, in
\* ascending order of timestamp; no message the requesting client wrote is
\* in the response.
C14_LateMessagesExact ==
    \A c \in Clients :
        (calls[c].pc = "added" /\ calls[c].diff_time.tag = "Some")
            => LET late == find_late_messages(server[GROUP_ID].log,
                               clients[c].node_name, Floor(calls[c].diff_time))
               IN  /\ Range(late) =
                        {m \in server[GROUP_ID].log :
                            /\ StrLess(Floor(calls[c].diff_time), m.timestamp)
                            /\ AuthorOf(m) # Pad(clients[c].node_name)}
                   /\ Ascending(late)
                   /\ Len(late) = Cardinality(Range(late))

\* C15: when the requests the server was handling have completed, however
\* they ran into each other, the group's stored merkle trie holds the
\* timestamps of all the messages they logged: it is the trie of the group's
\* message log.
C15_NoLostUpdate ==
    (\A c \in Clients : calls[c].pc \notin {"posted", "added"})
        => ServerTrieOfLog

\* C16: the operations of one client never interleave: at most one thread
\* of the application is between taking the Syncer's Mutex and dropping its
\* guard, and from the post of a sync round to the handling of its response
\* (the HTTP round trip and the recursive rounds included) the thread that
\* runs the operation holds it; no thread holds it between operations.
C16_OperationsExclusive ==
    \A c \in Clients :
        /\ Cardinality(calls[c].held) <= 1
        /\ InProgress(c) => calls[c].held = {ThreadOf(calls[c].op)}
        /\ ~InProgress(c) => calls[c].held = {}

\* The main thread holds the Mutex while its request is at the server,
\* after a periodic sync of the same application has run.
C16_Witness ==
    /\ synced > 0
    /\ calls["CLIENT"].pc = "added"
    /\ calls["CLIENT"].op = "add_task"
    /\ calls["CLIENT"].held = {"main"}

\* C19: a successful send() that reads the wall clock phys sets millis to
\* max(old millis, phys) and counter to old counter + 1 if millis did not
\* change and to 0 otherwise; node is unchanged and the timestamp returned
\* is the new value of the clock.  So two sends at the same physical
\* millisecond, from a clock at (phys, 0), return counters 1 and then 2.
C19_SendRule ==
    /\ (hlcOp.kind = "send" /\ hlcOp.err = "Ok")
          => /\ hlc.millis = Max(hlcOp.before.millis, hlcOp.phys)
             /\ hlc.counter = IF hlc.millis = hlcOp.before.millis
                               THEN hlcOp.before.counter + 1 ELSE 0
             /\ hlc.node = hlcOp.before.node
             /\ hlcLog # <<>>
             /\ hlcLog[Len(hlcLog)] = [kind |-> "send", ts |-> hlc]
    /\ (/\ hlcOp.kind = "send" /\ hlcOp.err = "Ok"
        /\ hlcOp.before.millis = hlcOp.phys /\ hlcOp.before.counter = 0)
          => hlc.counter = 1
    /\ (/\ hlcOp.kind = "send" /\ hlcOp.err = "Ok" /\ Len(hlcLog) >= 2
        /\ hlcLog[Len(hlcLog) - 1] = [kind |-> "send", ts |-> hlcOp.before]
        /\ hlcOp.before.millis = hlcOp.phys /\ hlcOp.before.counter = 1)
          => hlc.counter = 2

\* Two sends at the wall clock's millisecond from a clock at that
\* millisecond with counter 0: counters 1 and 2.
C19_Witness ==
    /\ hlcOp.kind = "send" /\ hlcOp.err = "Ok" /\ hlcOp.n = 2
    /\ Len(hlcLog) = 2
    /\ hlcLog[1] = [kind |-> "send", ts |-> Timestamp(hlcOp.phys, 1, "local")]
    /\ hlcLog[2] = [kind |-> "send", ts |-> Timestamp(hlcOp.phys, 2, "local")]
    /\ hlc = Timestamp(hlcOp.phys, 2, "local")

\* C20: a successful recv(other) that reads the wall clock phys sets millis
\* to l_new = max(old millis, phys, other.millis) and counter to
\* max(old counter, other.counter) + 1 if l_new equals both old millis and
\* other.millis, to old counter + 1 if it equals old millis only, to
\* other.counter + 1 if it equals other.millis only, and to 0 if it is the
\* wall clock's time alone.
C20_RecvRule ==
    (hlcOp.kind = "recv" /\ hlcOp.err = "Ok")
        => LET old == hlcOp.before
               other == hlcOp.other
               l_new == Max(Max(old.millis, hlcOp.phys), other.millis)
           IN  /\ hlc.millis = l_new
               /\ (l_new = old.millis /\ l_new = other.millis)
                     => hlc.counter = Max(old.counter, other.counter) + 1
               /\ (l_new = old.millis /\ l_new # other.millis)
                     => hlc.counter = old.counter + 1
               /\ (l_new # old.millis /\ l_new = other.millis)
                     => hlc.counter = other.counter + 1
               /\ (l_new # old.millis /\ l_new # other.millis)
                     => hlc.counter = 0
               /\ hlc.node = old.node

\* A recv of a timestamp at the clock's millis with the greater counter,
\* the wall clock not being ahead.
C20_Witness ==
    /\ hlcOp.kind = "recv" /\ hlcOp.err = "Ok"
    /\ hlcOp.before.millis = hlcOp.other.millis
    /\ hlcOp.phys <= hlcOp.before.millis
    /\ hlcOp.other.counter > hlcOp.before.counter
    /\ hlc.counter = hlcOp.other.counter + 1

\* The millis and the counter a call of SpecHLC computes: l_new and c_new.
OpMillis ==
    IF hlcOp.kind = "recv"
    THEN Max(Max(hlcOp.before.millis, hlcOp.phys), hlcOp.other.millis)
    ELSE Max(hlcOp.before.millis, hlcOp.phys)

OpCounter ==
    IF hlcOp.kind = "recv"
    THEN IF OpMillis = hlcOp.before.millis /\ OpMillis = hlcOp.other.millis
         THEN Max(hlcOp.before.counter, hlcOp.other.counter) + 1
         ELSE IF OpMillis = hlcOp.before.millis THEN hlcOp.before.counter + 1
         ELSE IF OpMillis = hlcOp.other.millis THEN hlcOp.other.counter + 1
         ELSE 0
    ELSE IF OpMillis = hlcOp.before.millis THEN hlcOp.before.counter + 1 ELSE 0

\* The call is a recv of a timestamp of the clock's own node.
OpOwnNode == hlcOp.kind = "recv" /\ hlcOp.other.node = hlcOp.before.node

\* C21: send() fails with ClockDrift when the new millis is more than
\* MAX_DRIFT ahead of the wall clock and with Overflow when the new counter
\* would exceed MAX_COUNTER, and so does recv(); a call that fails leaves
\* millis, counter and node as they were, and the counter of the clock
\* never exceeds MAX_COUNTER.
C21_FailuresLeaveClock ==
    /\ (hlcOp.kind # "none" /\ ~OpOwnNode /\ OpMillis - hlcOp.phys > MAX_DRIFT)
          => hlcOp.err = "ClockDriftError"
    /\ (/\ hlcOp.kind # "none" /\ ~OpOwnNode
        /\ OpMillis - hlcOp.phys <= MAX_DRIFT /\ OpCounter > MAX_COUNTER)
          => hlcOp.err = "OverflowError"
    /\ (hlcOp.kind # "none" /\ hlcOp.err # "Ok") => hlc = hlcOp.before
    /\ hlc.counter <= MAX_COUNTER

\* A send that failed with Overflow on a clock at MAX_COUNTER.
C21_Witness ==
    /\ hlcOp.kind = "send" /\ hlcOp.err = "OverflowError"
    /\ hlcOp.before.counter = MAX_COUNTER
    /\ hlc = hlcOp.before

\* C18: for two tries that hold exactly one timestamp each, with different
\* millis (keys of equal or of different length), diff returns Some of the
\* smaller millis, in both directions.
C18_SingleTimestampDiff ==
    (/\ m1.length = 1 /\ m2.length = 1
     /\ ins1.last.millis # ins2.last.millis)
        => /\ Diff(m1, m2) = Some(Min(ins1.last.millis, ins2.last.millis))
           /\ Diff(m2, m1) = Some(Min(ins1.last.millis, ins2.last.millis))

\* C23: diff returns None when both tries are empty and Some(0) when
\* exactly one of them is, whichever side the empty one is on.
C23_DiffOfEmpty ==
    /\ (is_empty(m1) /\ is_empty(m2))
          => Diff(m1, m2) = None /\ Diff(m2, m1) = None
    /\ (is_empty(m1) # is_empty(m2))
          => Diff(m1, m2) = Some(0) /\ Diff(m2, m1) = Some(0)

\* The first trie is empty and the second holds two timestamps, none of
\* millis 0.
C23_Witness ==
    /\ is_empty(m1) /\ m2.length = 2
    /\ \A t \in Members(ins2) : t.millis > 0
    /\ Diff(m1, m2) = Some(0)

\* The hash of the child of the node at path under digit d, 0 for a
\* missing child (or a missing node).
ChildHash(trie, path, d) ==
    IF Append(path, d) \in DOMAIN trie.nodes
    THEN trie.nodes[Append(path, d)].hash
    ELSE {}

\* The digits under which the children of the nodes at path differ.
DifferingDigits(a, b, path) ==
    {d \in 0..(BASE - 1) : ChildHash(a, path, d) # ChildHash(b, path, d)}

\* C24: in the walk of diff over two non-empty tries with different root
\* hashes, the digit descended into at each level is the smallest digit
\* whose child hashes differ between the two tries (a missing child
\* counting as hash 0); no digit with equal child hashes is descended into.
C24_DescendsIntoDifference ==
    (/\ ~is_empty(m1) /\ ~is_empty(m2)
     /\ root_hash(m1) # root_hash(m2))
        => LET prefix == DiffWalk(m1, m2, <<>>, FALSE, FALSE).prefix
           IN  \A i \in 1..Len(prefix) :
                 LET path == SubSeq(prefix, 1, i - 1)
                 IN  /\ prefix[i] \in DifferingDigits(m1, m2, path)
                     /\ \A d \in DifferingDigits(m1, m2, path) : prefix[i] <= d

\* C25: whenever diff returns Some(d) for two non-empty tries, d is the
\* millis of a timestamp that was inserted into one of the two, never the
\* value of a prefix that is the key of no inserted timestamp.
C25_DiffReturnsStoredMillis ==
    (/\ ~is_empty(m1) /\ ~is_empty(m2)
     /\ Diff(m1, m2).tag = "Some")
        => \E t \in Members(ins1) \cup Members(ins2) :
              t.millis = Diff(m1, m2).val

\* C26: after any sequence of inserts a node of the trie, the root
\* included, has stored = true exactly when its path is the whole key of
\* an inserted timestamp; the root (the empty key) is stored exactly when
\* a timestamp of millis 0 was inserted.
C26_StoredIffFullKey ==
    /\ \A path \in DOMAIN m1.nodes :
          m1.nodes[path].stored
              <=> \E t \in Members(ins1) : timestamp_to_key(t) = path
    /\ m1.nodes[<<>>].stored <=> \E t \in Members(ins1) : t.millis = 0

\* C22: whenever receive_messages is given a message whose timestamp
\* carries the client's own node name, recv fails with DuplicateNodeError,
\* the call ends with that error and no message of the batch is applied:
\* so for the response a client is about to handle, whatever the wall clock.
C22_OwnNodeRejected ==
    \A c \in Clients :
        (/\ calls[c].pc = "added"
         /\ \E m \in Range(new_messages(c)) :
               AuthorOf(m) = Pad(clients[c].node_name))
            => \A phys \in SysPhysTimes :
                 LET r == receive_messages(clients[c], phys, new_messages(c))
                 IN  /\ r.err = "DuplicateNodeError"
                     /\ StoreOf(r.cl) = StoreOf(clients[c])

\* The errors of Todo::handle_message.
HandlerErrors == {"Wrong table", "Wrong row", "ParseIntError", "Unknown type"}

\* The timestamp is in applied and its key is a stored node of the trie.
HoldsTimestamp(cl, text) ==
    /\ text \in cl.applied
    /\ timestamp_to_key(parse(text)) \in DOMAIN cl.merkle.nodes
    /\ cl.merkle.nodes[timestamp_to_key(parse(text))].stored

\* C29: when the record handler fails on a message during apply_messages,
\* the call returns the error and is not transactional: the messages (of
\* the store's table) sorted before the failing one are applied, record,
\* applied set and merkle trie, and no message sorted after it is applied.
\* So for every batch the store may be given:
C29_NotTransactional ==
    \A batch \in Batches :
        LET r == apply_messages(store, batch)
            sorted == SortByTimestamp(batch)
        IN  r.err \in HandlerErrors =>
              \E k \in 1..Len(sorted) :
                LET pre == ApplyLoop(store, SubSeq(sorted, 1, k - 1), TODO_TABLE)
                IN  /\ pre.err = "Ok"
                    /\ sorted[k].dataset = TODO_TABLE
                    /\ apply_item_table(pre.cl, sorted[k]).err = r.err
                    /\ StoreOf(r.cl) = StoreOf(pre.cl)
                    /\ \A j \in 1..(k - 1) :
                          sorted[j].dataset = TODO_TABLE
                            => /\ HoldsTimestamp(r.cl, sorted[j].timestamp)
                               /\ sorted[j].row \in DOMAIN r.cl.items
                    /\ \A j \in (k + 1)..Len(sorted) :
                          sorted[j].timestamp \in r.cl.applied
                            => \/ sorted[j].timestamp \in store.applied
                               \/ \E i \in 1..(k - 1) :
                                     sorted[i].timestamp = sorted[j].timestamp

\* A call that failed in the handler after it had applied a message.
C29_Witness ==
    /\ storeOp.kind = "apply"
    /\ storeOp.err \in HandlerErrors
    /\ storeOp.fresh = 1
    /\ store.merkle.length >= 1

\* C31: apply_messages skips every message whose dataset is not the
\* store's table_name: it changes no record and enters neither applied nor
\* the merkle trie, and the other messages of the batch are applied as
\* they are without it; a batch whose other messages apply succeeds.  So
\* after every call, and for every batch the store may be given:
C31_ForeignDatasetSkipped ==
    \A batch \in {b \in Batches : Foreign(b)} :
        LET r == apply_messages(store, batch)
            others == SelectSeq(batch, LAMBDA m : m.dataset = TODO_TABLE)
            without == apply_messages(store, others)
        IN  /\ r.err = without.err
            /\ StoreOf(r.cl) = StoreOf(without.cl)
            /\ others = <<>> => r.err = "Ok" /\ r.cl = store
            /\ \A i \in 1..Len(batch) :
                  (/\ batch[i].dataset # TODO_TABLE
                   /\ batch[i].timestamp \in r.cl.applied)
                      => \/ batch[i].timestamp \in store.applied
                         \/ \E j \in 1..Len(others) :
                               others[j].timestamp = batch[i].timestamp

\* The first call on a new store succeeded and applied one message, and
\* the store is what a batch of that message and a message of another
\* table leaves.
C31_Witness ==
    /\ storeOp.kind = "apply" /\ storeOp.n = 1
    /\ storeOp.err = "Ok"
    /\ storeOp.fresh = 1
    /\ \E batch \in Batches :
          /\ Foreign(batch) /\ Len(batch) = 2
          /\ apply_messages(NewSyncer("CLIENT"), batch).cl = store

\* C30: when a batch received from the server holds a message whose
\* timestamp does not parse, that message is skipped: it changes no record
\* and enters neither applied nor the merkle trie, and the other messages
\* of the batch are applied as they are without it.  So for every batch
\* receive_messages may be given, whatever the wall clock:
C30_UnparsableSkipped ==
    \A batch \in Batches, phys \in PhysTimes :
        LET r == receive_messages(store, phys, batch)
            others == SelectSeq(batch, LAMBDA m : Parses(m.timestamp))
            without == receive_messages(store, phys, others)
        IN  /\ r.err = without.err
            /\ StoreOf(r.cl) = StoreOf(without.cl)
            /\ \A i \in 1..Len(batch) :
                  ~Parses(batch[i].timestamp)
                      => batch[i].timestamp \notin r.cl.applied

\* C27: with honest peers, distinct node names and a working transport
\* the SyncStuck failure of sync is unreachable: every sync call, the one
\* of a mutation or a periodic one, returns Ok.
C27_NeverSyncStuck ==
    \A c \in Clients :
        /\ calls[c].result # "SyncStuck"
        /\ (calls[c].pc = "idle" /\ calls[c].op = "periodic")
              => calls[c].result = "Ok"

(***************************************************************************)
(* SpecLossy: one application and a new server, with the actions of       *)
(* SpecOne and a transport that may fail: the POST of a mutation's first round may not   *)
(* reach the server (send() returns an error), and sync returns that error *)
(* to send_messages, which returns it after apply_messages has run.  The   *)
(* record of the failed call keeps the messages it did not deliver.        *)
(***************************************************************************)
TransportFails(c) ==
    /\ calls[c].pc = "posted"
    /\ calls[c].op # "periodic"
    /\ calls[c].rounds = 1
    /\ calls' = [calls EXCEPT ![c] =
                    [Finished(calls[c].op, "TransportError", FALSE, calls[c].base)
                        EXCEPT !.messages = calls[c].messages]]
    /\ UNCHANGED <<clients, server, issued, synced, hlcVars, trieVars, storeVars, lockVars>>

NextLossy == NextOne \/ TransportFails("CLIENT")

SpecLossy == Init /\ [][NextLossy]_vars

\* The timestamps of the messages a node has written.
OwnApplied(c) == {ts \in clients[c].applied : ts.node = Pad(clients[c].node_name)}

\* C28: when the HTTP exchange fails during the push of a mutation the
\* error is returned with the messages applied locally, and the round is
\* retried: after a later sync call that the transport carried, the
\* messages are in the server's log and the two merkles are equal.
C28_FailedPushRetried ==
    \A c \in Clients :
        /\ (calls[c].pc = "idle" /\ calls[c].result = "TransportError")
              => \A i \in 1..Len(calls[c].messages) :
                    calls[c].messages[i].timestamp \in clients[c].applied
        /\ (calls[c].pc = "idle" /\ calls[c].op = "periodic")
              => /\ OwnApplied(c) \subseteq {m.timestamp : m \in server[GROUP_ID].log}
                 /\ clients[c].merkle = server[GROUP_ID].merkle

\* n calls of send() one after another, each reading the wall clock phys.
RECURSIVE Ticks(_, _, _)
Ticks(timer, phys, n) ==
    IF n = 0 THEN timer ELSE Send(Ticks(timer, phys, n - 1), phys).ts

\* The parameters of a call that get a message: all of them for insert and
\* delete, those with an id for update.
Emitting(row_params, skipNoId) ==
    SelectSeq(row_params, LAMBDA x : ~(skipNoId /\ x.id = NoId))

\* For the clock timer: a call that succeeds emits one message for each
\* field (update: for each field with an id; delete: one tombstone
\* message), the clock has ticked as many times as there are messages, the
\* i-th message carries the timestamp of the i-th tick, and the timestamps
\* of one call are strictly increasing.
OneSendPerMessage(timer) ==
    \A phys \in SysPhysTimes, skipNoId \in BOOLEAN :
        \A row_params \in RowParamLists("r1") :
            LET e == EmitLoop(timer, phys, TODO_TABLE, row_params, "r9", skipNoId)
                fields == Emitting(row_params, skipNoId)
            IN  e.err = "Ok" =>
                  /\ Len(e.messages) = Len(fields)
                  /\ e.timer = Ticks(timer, phys, Len(fields))
                  /\ \A i \in 1..Len(fields) :
                        /\ e.messages[i].timestamp = to_string(Ticks(timer, phys, i))
                        /\ e.messages[i].column = fields[i].column
                  /\ \A i, j \in 1..Len(e.messages) :
                        i < j => TsLess(parse(e.messages[i].timestamp),
                                        parse(e.messages[j].timestamp))

\* C32: insert, update and delete make one send() for each message they
\* emit.  The messages a mutation posts are one for each field (delete: one
\* tombstone message), their timestamps are strictly increasing and the
\* last is the clock's; and from the clock of a new client and from the
\* clock a mutation has left, whatever the wall clock and the parameters, a
\* call that succeeds emits one message for each field (update: for each
\* field with an id), the clock has ticked as many times as there are
\* messages, the i-th message carries the timestamp of the i-th tick, and
\* the timestamps of one call are strictly increasing.
C32_OneSendPerMessage ==
    \A c \in Clients :
        /\ (calls[c].pc = "idle" /\ issued = 0 /\ synced = 0)
              => OneSendPerMessage(clients[c].timer)
        /\ (calls[c].pc = "posted" /\ calls[c].rounds = 1
                /\ calls[c].op # "periodic") =>
              LET messages == calls[c].messages
              IN  /\ Len(messages) =
                        IF calls[c].op = "remove_task" THEN 1 ELSE 2
                  /\ \A i, j \in 1..Len(messages) :
                        i < j => TsLess(parse(messages[i].timestamp),
                                        parse(messages[j].timestamp))
                  /\ messages[Len(messages)].timestamp =
                        to_string(clients[c].timer)
                  /\ OneSendPerMessage(clients[c].timer)

\* A mutation has posted its two messages: the second carries the tick
\* after the first's, and the clock stands at the second.
C32_Witness ==
    /\ calls["CLIENT"].pc = "posted"
    /\ calls["CLIENT"].op = "update_task"
    /\ Len(calls["CLIENT"].messages) = 2
    /\ calls["CLIENT"].messages[2].timestamp.counter =
          calls["CLIENT"].messages[1].timestamp.counter + 1
    /\ clients["CLIENT"].timer.counter = calls["CLIENT"].messages[2].timestamp.counter

\* Messages a request may carry: two of the writers', one with the
\* timestamp of a writer's message and another value, and one whose
\* timestamp does not parse.
RequestMessages ==
    {Logged[1], Logged[3],
     Message(to_string(Timestamp(BASE, 0, "CLIENT")), TODO_TABLE, "r1",
             "content", "b"),
     Message(to_string(Timestamp(BASE, 0, "my-laptop")), TODO_TABLE, "r2",
             "content", "a")}

RequestBatches == UNION {[1..n -> RequestMessages] : n \in 1..MaxBatch}

\* The messages of a batch that add_messages logs into log, in the order of
\* the batch: the first of each timestamp the log does not hold.
NewlyLogged(log, batch) ==
    LET new == SelectSeq([k \in 1..Len(batch) |-> k], LAMBDA k :
                   /\ \A m \in log : m.timestamp # batch[k].timestamp
                   /\ \A j \in 1..(k - 1) : batch[j].timestamp # batch[k].timestamp)
    IN  [i \in 1..Len(new) |-> batch[new[i]]]

(***************************************************************************)
(* SpecRecv: receive_messages of batches of a response on the Syncer of    *)
(* either client.  The batches hold messages recv() accepts and messages   *)
(* it rejects: one too far ahead of the wall clock and one of the node     *)
(* with the 16-character name.                                             *)
(***************************************************************************)
RecvErrors == {"DuplicateNodeError", "ClockDriftError", "OverflowError"}

RecvMessages ==
    {Logged[3],
     Message(to_string(Timestamp(BASE + MaxSysPhys + MAX_DRIFT, 0,
                                 "f0e1d2c3b4a59687")),
             TODO_TABLE, "r1", "content", "a"),
     Message(to_string(Timestamp(BASE, 0, "1a2b3c4d5e6f7a8b")),
             TODO_TABLE, "r2", "content", "b"),
     Message(to_string(Timestamp(BASE, 0, "my-laptop")), TODO_TABLE, "r2",
             "content", "a")}

RecvBatches == UNION {[1..n -> RecvMessages] : n \in 1..MaxBatch}

InitRecv ==
    /\ \E c \in Clients : store = NewSyncer(c)
    /\ storeOp = NoStoreOp
    /\ storeLog = {}
    /\ HlcIdle /\ TrieIdle /\ SysIdle /\ LockIdle

\* A call of receive_messages; first is the Syncer before the call.
DoReceive ==
    /\ storeOp.n < MaxApplies
    /\ \E phys \in SysPhysTimes, batch \in RecvBatches :
         LET r == receive_messages(store, phys, batch)
         IN  /\ store' = r.cl
             /\ storeOp' = [kind |-> "receive", err |-> r.err, first |-> store,
                            fresh |-> Cardinality(r.cl.applied \ store.applied),
                            n |-> storeOp.n + 1,
                            clean |-> storeOp.clean /\ r.err = "Ok"]
             /\ storeLog' = storeLog \cup NewlyApplied(store, r.cl, batch)
    /\ UNCHANGED <<hlcVars, trieVars, sysVars, lockVars>>

NextRecv == DoReceive

SpecRecv == InitRecv /\ [][NextRecv]_vars

\* The clock after recv() of the first n of the messages, one after another.
RECURSIVE RecvAll(_, _, _, _)
RecvAll(timer, phys, messages, n) ==
    IF n = 0 THEN [err |-> "Ok", ts |-> timer]
    ELSE LET before == RecvAll(timer, phys, messages, n - 1)
         IN  IF before.err # "Ok" THEN before
             ELSE Recv(before.ts, parse(messages[n].timestamp), phys)

\* C34: receive_messages calls recv() for every message of the batch whose
\* timestamp parses before it applies any message: when a recv() fails the
\* call returns its error with the records, the applied set and the merkle
\* trie as they were, and otherwise the clock has been advanced by all of
\* them and the batch is applied.
C34_RecvBeforeApply ==
    /\ (storeOp.kind = "receive" /\ storeOp.err \in RecvErrors)
          => StoreOf(store) = StoreOf(storeOp.first)
    /\ \A phys \in SysPhysTimes, batch \in RecvBatches :
          LET r == receive_messages(store, phys, batch)
              parseable == SelectSeq(batch, LAMBDA m : Parses(m.timestamp))
              clock == RecvAll(store.timer, phys, parseable, Len(parseable))
          IN  IF clock.err # "Ok"
              THEN /\ r.err = clock.err
                   /\ StoreOf(r.cl) = StoreOf(store)
              ELSE /\ r.cl.timer = clock.ts
                   /\ r.err = apply_messages(store, batch).err
                   /\ StoreOf(r.cl) = StoreOf(apply_messages(store, batch).cl)

\* A call has failed in recv() of the second message of its batch, the
\* first being one the Syncer had not applied: the clock has moved and the
\* store has not.
C34_Witness ==
    /\ storeOp.kind = "receive"
    /\ storeOp.err \in RecvErrors
    /\ store.timer # storeOp.first.timer
    /\ store.applied # {}
    /\ \E phys \in SysPhysTimes, batch \in RecvBatches :
          /\ Len(batch) = 2
          /\ batch[1].timestamp \notin storeOp.first.applied
          /\ Recv(storeOp.first.timer, parse(batch[1].timestamp), phys).err = "Ok"
          /\ receive_messages(storeOp.first, phys, batch).cl = store

\* The timestamps a client has applied, each once.
AppliedOnce(cl) ==
    [bag |-> [t \in {parse(text) : text \in cl.applied} |-> 1],
     last |-> Timestamp(0, 0, "")]

\* The trie of the Syncer cl holds the timestamps of its applied set, each
\* once.
HoldsApplied(cl) ==
    /\ cl.merkle.length = Cardinality(cl.applied)
    /\ HashesAreSubtreeXors(cl.merkle, AppliedOnce(cl))

TrieOfApplied(c) == HoldsApplied(clients[c])

\* The trie of the Syncer cl is the trie of the timestamps of its applied
\* set, each inserted once.
BuiltFromApplied(cl) ==
    cl.merkle = TrieOfMessages({[timestamp |-> t] : t \in cl.applied})

\* C35: in every reachable state the merkle trie of a client holds exactly
\* the timestamps of its applied set, each once.  It does at the start
\* (the length is the size of applied, the root hash and every node's hash
\* the XOR of their hashes), and a step changes the trie and the applied
\* set only together, only by adding to applied, only when it applies
\* messages (a mutation or the handling of a response), and leaves the
\* trie that inserting the timestamps of the new applied set, each once,
\* builds.
C35_TrieIsAppliedSet ==
    /\ \A c \in Clients : TrieOfApplied(c) /\ BuiltFromApplied(clients[c])
    /\ [][\A c \in Clients :
            (\/ clients'[c].merkle # clients[c].merkle
             \/ clients'[c].applied # clients[c].applied)
                => /\ clients'[c].merkle # clients[c].merkle
                   /\ clients[c].applied \subseteq clients'[c].applied
                   /\ clients'[c].applied # clients[c].applied
                   /\ \/ issued' = issued + 1 /\ calls[c].pc = "idle"
                      \/ calls[c].pc = "added"
                   /\ BuiltFromApplied(clients'[c])]_vars

\* The client has applied the two messages of a mutation, of one
\* millisecond, and a message of another node that a response brought.
C35_Witness ==
    /\ issued >= 1
    /\ clients["CLIENT"].merkle.length >= 3
    /\ \E t, u \in OwnApplied("CLIENT") : t.millis = u.millis /\ t.counter # u.counter
    /\ \E t \in clients["CLIENT"].applied : t.node = "f0e1d2c3b4a59687"
    /\ TrieOfApplied("CLIENT")

(***************************************************************************)
(* SpecServer: the server alone (examples/server), handling one POST /sync *)
(* after another, for either group, with any messages in the request.      *)
(***************************************************************************)
MaxRequests == 3

\* The tables after the handler of a request for group_id with messages has
\* run alone: get_merkle and add_messages of that group.
Handled(srv, group_id, messages) ==
    [srv EXCEPT ![group_id] =
        add_messages(srv[group_id], get_merkle(srv, group_id), messages).group]

InitServer ==
    /\ server = [g \in ServerGroups |-> NewGroup]
    /\ clients = [c \in Clients |-> NewSyncer(c)]
    /\ calls = [c \in Clients |-> NoCall]
    /\ issued = 0
    /\ synced = 0
    /\ HlcIdle /\ TrieIdle /\ StoreIdle /\ LockIdle

HandleSync ==
    /\ issued < MaxRequests
    /\ \E group_id \in ServerGroups, messages \in RequestBatches :
          server' = Handled(server, group_id, messages)
    /\ issued' = issued + 1
    /\ UNCHANGED <<clients, calls, synced, hlcVars, trieVars, storeVars, lockVars>>

NextServer == HandleSync

SpecServer == InitServer /\ [][NextServer]_vars

\* C33: add_messages ignores a message whose (timestamp, group) is in the
\* log: the log gains the messages of new timestamps and nothing else, the
\* trie gains one insertion for each of them (that parses) and none for a
\* message ignored, the merkle row is rewritten only when a message was
\* newly logged, and a second call with the same batch leaves the log and
\* the stored merkle as the first left them.
C33_AddMessagesIdempotent ==
    \A batch \in RequestBatches :
        LET group == server[GROUP_ID]
            read  == get_merkle(server, GROUP_ID)
            one   == add_messages(group, read, batch)
            again == add_messages(one.group, one.group.merkle, batch)
            new   == NewlyLogged(group.log, batch)
        IN  /\ one.group.log = group.log \cup Range(new)
            /\ one.trie = InsertAll(read,
                   SelectSeq(new, LAMBDA m : Parses(m.timestamp)))
            /\ one.group.merkle # group.merkle => new # <<>>
            /\ one.group.merkle \in {group.merkle, one.trie}
            /\ again.group = one.group
            /\ again.trie = one.group.merkle

\* The server has handled two requests and the log of the group holds the
\* two messages of a batch, one of a timestamp that does not parse; the
\* same request again would change nothing.
C33_Witness ==
    /\ issued = MaxRequests
    /\ \E batch \in RequestBatches :
          /\ Len(batch) = 2
          /\ batch[1].timestamp # batch[2].timestamp
          /\ ~Parses(batch[2].timestamp)
          /\ Range(batch) = server[GROUP_ID].log
          /\ server[GROUP_ID].merkle.length = 1
          /\ Handled(server, GROUP_ID, batch) = server

\* The stored trie of group g holds the timestamps of the group's log, each
\* once.
GroupTrieOfLog(g) ==
    LET T == {parse(m.timestamp) : m \in server[g].log}
    IN  /\ server[g].merkle.length = Cardinality(server[g].log)
        /\ HashesAreSubtreeXors(server[g].merkle,
                                [bag |-> [t \in T |-> 1], last |-> Timestamp(0, 0, "")])

\* C36: in every state the server reaches by handling requests one at a
\* time, the stored merkle of each group holds exactly the timestamps of the
\* messages of the group's log, each once (its length is the number of
\* logged messages, its hashes the XOR of theirs), and a request changes
\* the log and the merkle of no group but its own.
C36_ServerTrieIsLog ==
    /\ [](\A g \in ServerGroups : GroupTrieOfLog(g))
    /\ [][Cardinality({g \in ServerGroups : server'[g] # server[g]}) <= 1]_vars

\* When every logged timestamp parses, the stored tries hold the logs.
ParseableLogsIndexed ==
    (\A g \in ServerGroups : \A m \in server[g].log : Parses(m.timestamp))
        => \A g \in ServerGroups : GroupTrieOfLog(g)

\* C37: in every reachable state the clock of a client is, in (millis,
\* counter) order, not less than any timestamp of its applied set, so the
\* timestamp a later send() returns is greater than that of every message
\* the client has applied.
C37_ClockCoversApplied ==
    \A c \in Clients : \A text \in clients[c].applied :
        /\ ~TsLess(clients[c].timer, parse(text))
        /\ \A phys \in SysPhysTimes :
              Send(clients[c].timer, phys).err = "Ok"
                  => TsLess(parse(text), Send(clients[c].timer, phys).ts)

\* The client has applied a message of another node that is later than the
\* wall clock read when the response came, and messages of its own.
C37_Witness ==
    /\ \E text \in clients["CLIENT"].applied :
          /\ text.node = "f0e1d2c3b4a59687"
          /\ text.millis = clients["CLIENT"].timer.millis
          /\ text.counter < clients["CLIENT"].timer.counter
    /\ issued >= 1
    /\ OwnApplied("CLIENT") # {}
    /\ calls["CLIENT"].pc = "idle"

\* diff(a, b) gets as far as its loop: both tries hold something and the
\* root hashes differ.
Walks(a, b) == ~is_empty(a) /\ ~is_empty(b) /\ root_hash(a) # root_hash(b)

\* C38: for two tries built by insert calls (timestamps of millis 0 and
\* one-digit keys included) the assertions of diff do not fail: after the
\* walk the diverging prefix is not empty, and find_first_key_by_prefix
\* meets no node that is neither stored nor has children, so diff returns.
C38_DiffAssertionsHold ==
    /\ Walks(m1, m2) => DiffWalk(m1, m2, <<>>, FALSE, FALSE).prefix # <<>>
    /\ Walks(m2, m1) => DiffWalk(m2, m1, <<>>, FALSE, FALSE).prefix # <<>>
    /\ Diff(m1, m2).tag # "Panic"
    /\ Diff(m2, m1).tag # "Panic"

\* A second client that applied the messages the store has applied, all in
\* one batch.
InOneBatch == apply_messages(NewSyncer("CLIENT"), OrderByTimestamp(storeLog)).cl

\* C39: two clients with the same applied set have equal records, field by
\* field, whatever the order and the batches in which each applied the
\* messages: the store, which applied them in the calls made so far, and a
\* client that applied them in one batch.
C39_SameAppliedSameRecords ==
    (storeOp.clean /\ InOneBatch.applied = store.applied)
        => /\ InOneBatch.merkle.length = store.merkle.length
           /\ root_hash(InOneBatch.merkle) = root_hash(store.merkle)
           /\ DOMAIN InOneBatch.items = DOMAIN store.items
           /\ \A row \in DOMAIN store.items :
                 \A column \in {"content", "todo_type", "tombstone"} :
                     FieldOf(InOneBatch.items[row], column)
                         = FieldOf(store.items[row], column)

(***************************************************************************)
(* SpecLocks: the locks of one application.  The main thread runs the     *)
(* operations of the menu and another thread the periodic sync; each      *)
(* takes the Mutex of the global Syncer for a whole operation.  In         *)
(* examples/client the Storage is a second global behind its own Mutex,    *)
(* which send_messages and receive_messages lock for their one call of     *)
(* apply_messages (separate); in client/ it is a field of the Syncer.      *)
(* What an operation does to the data is left open here: every outcome of  *)
(* apply_messages, of the HTTP exchange and of diff is possible, and the   *)
(* rounds of one sync are at most MaxRounds (C11).  The thread that waits   *)
(* for the Mutex gets it when it is free (the thread that dropped the      *)
(* guard sleeps 3 s or waits for a key before it locks again); a thread     *)
(* that runs goes on.                                                     *)
(***************************************************************************)
MaxOps == 3
MaxRounds == 2

OpsOf(t) ==
    IF t = "sync" THEN {"periodic"}
    ELSE {"show_tasks", "add_task", "update_task", "remove_task"}

\* The thread calls Syncer::global().lock() for an operation.
CallLock(t) ==
    /\ ~app.exited
    /\ app.pc[t] = "idle"
    /\ app.started < MaxOps
    /\ \E op \in OpsOf(t) :
          app' = [app EXCEPT !.pc[t] = "waiting", !.op[t] = op,
                             !.started = @ + 1]
    /\ UNCHANGED <<hlcVars, trieVars, storeVars, sysVars>>

\* The thread panics: the main thread's panic ends the process, another
\* thread's ends the thread.  The guards the thread holds are dropped while
\* it unwinds, which poisons their Mutex.
Panicked(t) ==
    IF t = "main"
    THEN [app EXCEPT !.pc = [u \in Threads |-> "exited"],
                     !.syncer = {}, !.storage = {}, !.exited = TRUE]
    ELSE [app EXCEPT !.pc[t] = "dead", !.syncer = @ \ {t},
                     !.storage = @ \ {t},
                     !.poisoned = @ \/ t \in app.syncer]

\* lock() returns when no thread holds the Mutex: the guard, or the error
\* of a poisoned Mutex, which unwrap() turns into a panic.
Acquire(t) ==
    /\ app.pc[t] = "waiting"
    /\ app.syncer = {}
    /\ app' = IF app.poisoned THEN Panicked(t)
              ELSE [app EXCEPT !.pc[t] = "locked", !.syncer = {t}]
    /\ UNCHANGED <<hlcVars, trieVars, storeVars, sysVars>>

\* Storage::global().lock(): it returns when no thread holds the Storage's
\* Mutex; without a separate Storage there is nothing to lock.
LockStorage(t) == app.separate => app.storage = {}

WithStorage(t) == IF app.separate THEN {t} ELSE {}

\* The operation begins: a mutation goes to send_messages, which locks the
\* Storage for apply_messages (add_task and update_task unwrap the words
\* of the input line first, and panic on a missing one); show_tasks reads
\* the records; the periodic sync posts its request.
Begin(t) ==
    /\ app.pc[t] = "locked"
    /\ \/ /\ app.op[t] = "periodic"
          /\ app' = [app EXCEPT !.pc[t] = "posted", !.rounds = 1]
       \/ /\ app.op[t] # "periodic"
          /\ LockStorage(t)
          /\ app' = [app EXCEPT !.storage = WithStorage(t),
                                !.pc[t] = IF app.op[t] = "show_tasks"
                                          THEN "showing" ELSE "applying"]
       \/ /\ app.op[t] \in {"add_task", "update_task"}
          /\ app' = [app EXCEPT !.pc[t] = "panicked"]
    /\ UNCHANGED <<hlcVars, trieVars, storeVars, sysVars>>

AppliedKeepsGuard(t) ==
    /\ app.pc[t] = "applying"
    /\ \E ok \in BOOLEAN :
          app' = [app EXCEPT !.pc[t] = IF ok THEN "posted" ELSE "failed",
                             !.rounds = 1]
    /\ UNCHANGED <<hlcVars, trieVars, storeVars, sysVars>>

\* send_messages after apply_messages: the guard of the Storage is dropped
\* at the end of the statement; on Ok the request is posted, an error is
\* returned.
Applied(t) ==
    /\ app.pc[t] = "applying"
    /\ \E ok \in BOOLEAN :
          app' = [app EXCEPT !.storage = @ \ {t},
                             !.pc[t] = IF ok THEN "posted" ELSE "failed",
                             !.rounds = 1]
    /\ UNCHANGED <<hlcVars, trieVars, storeVars, sysVars>>

\* The HTTP exchange ends: with an error, with messages (receive_messages
\* locks the Storage for apply_messages) or without.
Responded(t) ==
    /\ app.pc[t] = "posted"
    /\ \/ app' = [app EXCEPT !.pc[t] = "failed"]
       \/ /\ LockStorage(t)
          /\ app' = [app EXCEPT !.storage = WithStorage(t),
                                !.pc[t] = "receiving"]
       \/ app' = [app EXCEPT !.pc[t] = "compared"]
    /\ UNCHANGED <<hlcVars, trieVars, storeVars, sysVars>>

\* receive_messages after apply_messages: the guard of the Storage is
\* dropped.
Received(t) ==
    /\ app.pc[t] = "receiving"
    /\ \E ok \in BOOLEAN :
          app' = [app EXCEPT !.storage = @ \ {t},
                             !.pc[t] = IF ok THEN "compared" ELSE "failed"]
    /\ UNCHANGED <<hlcVars, trieVars, storeVars, sysVars>>

\* sync after diff: the recursive call, Ok, the SyncStuck error, or the
\* panic of an assertion of diff (C38).
Compared(t) ==
    /\ app.pc[t] = "compared"
    /\ \/ /\ app.rounds < MaxRounds
          /\ app' = [app EXCEPT !.pc[t] = "posted", !.rounds = @ + 1]
       \/ app' = [app EXCEPT !.pc[t] = "returned"]
       \/ app' = [app EXCEPT !.pc[t] = "failed"]
       \/ app' = [app EXCEPT !.pc[t] = "panicked"]
    /\ UNCHANGED <<hlcVars, trieVars, storeVars, sysVars>>

\* The records were read: the guard of the Storage is dropped.
Shown(t) ==
    /\ app.pc[t] = "showing"
    /\ app' = [app EXCEPT !.storage = @ \ {t}, !.pc[t] = "returned"]
    /\ UNCHANGED <<hlcVars, trieVars, storeVars, sysVars>>

\* The end of the block: the guard of the Syncer is dropped.  remove_task
\* unwraps the result of delete: on an error the main thread panics, the
\* guard is dropped while it unwinds and the process ends.
Return(t) ==
    /\ app.pc[t] \in {"returned", "failed", "panicked"}
    /\ IF \/ app.pc[t] = "panicked"
          \/ app.pc[t] = "failed" /\ app.op[t] = "remove_task"
       THEN app' = Panicked(t)
       ELSE app' = [app EXCEPT !.pc[t] = "idle", !.syncer = @ \ {t},
                               !.done = @ + 1]
    /\ UNCHANGED <<hlcVars, trieVars, storeVars, sysVars>>

InitLocks ==
    /\ \E separate \in BOOLEAN : app = [NoApp EXCEPT !.separate = separate]
    /\ HlcIdle /\ TrieIdle /\ StoreIdle /\ SysIdle

Runs(t) ==
    \/ Begin(t) \/ Applied(t) \/ Responded(t) \/ Received(t)
    \/ Compared(t) \/ Shown(t) \/ Return(t)

NextLocks ==
    \E t \in Threads :
        \/ CallLock(t)
        \/ Acquire(t)
        \/ Begin(t)
        \/ Applied(t)
        \/ Responded(t)
        \/ Received(t)
        \/ Compared(t)
        \/ Shown(t)
        \/ Return(t)

SpecLocks ==
    /\ InitLocks
    /\ [][NextLocks]_vars
    /\ \A t \in Threads : WF_vars(Runs(t)) /\ SF_vars(Acquire(t))

\* C40: the application does not deadlock on its locks.  At most one
\* thread holds the Syncer's Mutex, a thread that is between operations
\* (the periodic thread asleep) holds no lock, and the Storage's Mutex is
\* held only by the thread that holds the Syncer's; a thread that holds
\* the Syncer's Mutex drops it, and a thread that waits for it gets it
\* (unless a panic of the main thread has ended the process).
C40_NoDeadlock ==
    /\ [](/\ Cardinality(app.syncer) <= 1
          /\ app.storage \subseteq app.syncer
          /\ \A t \in Threads :
                app.pc[t] \in {"idle", "waiting", "dead"}
                    => t \notin app.syncer \cup app.storage)
    /\ \A t \in Threads : (t \in app.syncer) ~> (t \notin app.syncer)
    /\ \A t \in Threads :
          (app.pc[t] = "waiting") ~> (t \in app.syncer \/ app.exited)

\* The periodic thread holds both Mutexes while the main thread waits for
\* the Syncer's, after an operation of the main thread has ended.
C40_Witness ==
    /\ app.separate
    /\ app.syncer = {"sync"}
    /\ app.storage = {"sync"}
    /\ app.pc["main"] = "waiting"
    /\ app.done >= 1

(***************************************************************************)
(* SpecCodec: a timestamp with any non-negative millis, in a trie of any   *)
(* base, is turned into its key and the key back into millis.  An          *)
(* arithmetic overflow panics in a build with overflow checks and wraps in *)
(* a build without them.                                                   *)
(***************************************************************************)
Bases == 2..MaxBase

CodecMillis == 0..(2 ^ (UsizeBits - 1) - 1)

InitCodec ==
    /\ \E Base \in Bases, millis \in CodecMillis :
          codec = [NoCodec EXCEPT !.Base = Base, !.millis = millis, !.pc = "new"]
    /\ m1 = NewTrie /\ m2 = NewTrie /\ ins1 = NoInserts /\ ins2 = NoInserts
    /\ HlcIdle /\ StoreIdle /\ SysIdle /\ LockIdle

Encode ==
    /\ codec.pc = "new"
    /\ codec' = [codec EXCEPT !.pc = "encoded",
                    !.key = Reverse(DigitsLsfOf(codec.Base, codec.millis))]
    /\ UNCHANGED <<m1, m2, ins1, ins2, hlcVars, storeVars, sysVars, lockVars>>

Decode ==
    /\ codec.pc = "encoded"
    /\ LET loop == KeyLoop(codec.Base, Reverse(codec.key), 1, 0)
       IN  \E checked \in BOOLEAN :
             codec' = [codec EXCEPT !.pc = "decoded",
                         !.decoded = IF loop.overflow /\ checked THEN Panic
                                     ELSE Some(loop.current)]
    /\ UNCHANGED <<m1, m2, ins1, ins2, hlcVars, storeVars, sysVars, lockVars>>

NextCodec == Encode \/ Decode

SpecCodec == InitCodec /\ [][NextCodec]_vars

\* The value of the digits of key, most significant first, in base Base.
RECURSIVE ValueOf(_, _)
ValueOf(Base, key) ==
    IF key = <<>> THEN 0
    ELSE ValueOf(Base, SubSeq(key, 1, Len(key) - 1)) * Base + key[Len(key)]

\* C17: for every millis >= 0 and every BASE >= 2, timestamp_to_key gives
\* the digits of millis in base BASE, most significant first, each in
\* [0, BASE), with no leading zero (the empty key for 0), and
\* key_to_timestamp_millis of that key returns millis.
C17_KeyCodecRoundTrip ==
    /\ codec.pc \in {"encoded", "decoded"}
          => /\ \A i \in 1..Len(codec.key) : codec.key[i] \in 0..(codec.Base - 1)
             /\ codec.key # <<>> => codec.key[1] # 0
             /\ codec.key = <<>> <=> codec.millis = 0
             /\ ValueOf(codec.Base, codec.key) = codec.millis
    /\ codec.pc = "decoded" => codec.decoded = Some(codec.millis)

====
